---- MODULE Spec2Model ----
(***************************************************************************)
(* VaultDAO multi-signature treasury contract (contracts/vault).           *)
(*                                                                         *)
(* The contract storage is the state; every public entry point is one      *)
(* atomic action.  A handler is written as an operator from the storage    *)
(* before the call to an outcome [res, st]: res is the value the entry     *)
(* point returns ("Ok" or the VaultError name) and st is the storage as    *)
(* the handler's writes left it when it returned.  The Soroban host        *)
(* discards the writes of a call that returns Err (lib.rs:817-819,         *)
(* lib.rs:1984-1985); HostCommit models that.                              *)
(*                                                                         *)
(* Time: ledger is env.ledger().sequence(); env.ledger().timestamp() is    *)
(* SECONDS_PER_LEDGER seconds per ledger (lib.rs:31, storage.rs:231), so   *)
(* a day bucket is 17280 ledgers long and a temporary spend bucket         *)
(* outlives the period it is read in.                                      *)
(*                                                                         *)
(* Not modelled: gas limits, insurance configuration and reputation        *)
(* boosts (no entry point under src/ changes them from their defaults),    *)
(* recipient allow/deny lists (mode Disabled), templates, escrow,          *)
(* recurring payments, cross-vault coordination.  The delegation entry     *)
(* points and the storage side of the audit chain are not in the           *)
(* repository's sources; they follow the specification's sections 4.2 and  *)
(* 4.6 and the calls lib.rs makes into them.                               *)
(***************************************************************************)
EXTENDS Integers, Sequences, FiniteSets, TLC

\* ---------------------------------------------------------------- constants

PROPOSAL_EXPIRY_LEDGERS == 120960

SECONDS_PER_LEDGER == 5

SECONDS_PER_DAY == 86400

SECONDS_PER_WEEK == 604800

MAX_BACKOFF_EXPONENT == 10

\* ------------------------------------------------------------------- bounds

MaxProposals == 1

MaxDeposits == 1

\* ------------------------------------------------------------------ helpers

Contains(s, x) == \E i \in 1..Len(s) : s[i] = x

NoDup(s) == \A i, j \in 1..Len(s) : i # j => s[i] # s[j]

Max(a, b) == IF a >= b THEN a ELSE b

Min(a, b) == IF a <= b THEN a ELSE b

RECURSIVE Pow2(_)
Pow2(n) == IF n = 0 THEN 1 ELSE 2 * Pow2(n - 1)

\* A storage map with a default: the value under key k, or d when absent.
Get(m, k, d) == IF k \in DOMAIN m THEN m[k] ELSE d

\* m with key k set to v (insert or overwrite).
Put(m, k, v) == [x \in (DOMAIN m) \cup {k} |-> IF x = k THEN v ELSE m[x]]

EmptyMap == [x \in {} |-> 0]

Ret(res, st) == [res |-> res, st |-> st]

\* ---------------------------------------------------------------- identities

Admin == "admin"

Addresses == {"admin", "s1", "s2", "eve"}

Recipients == {"user"}

\* -------------------------------------------------------------------- state

VARIABLES
    config,          \* DataKey::Config
    roles,           \* DataKey::Role(addr)
    proposals,       \* DataKey::Proposal(id)
    nextProposalId,  \* DataKey::NextProposalId
    dailySpent,      \* DataKey::DailySpent(day)
    weeklySpent,     \* DataKey::WeeklySpent(week)
    velocity,        \* DataKey::VelocityHistory(addr)
    retryStates,     \* DataKey::RetryState(id)
    disputes,        \* DataKey::Dispute(id), DataKey::ProposalDispute(id)
    arbitrators,     \* DataKey::Arbitrators
    cancellations,   \* DataKey::CancellationRecord(id)
    delegations,     \* the delegation records, in the order they were created
    audit,           \* the audit entries by id and the last-hash pointer
    balance,         \* the vault's balance in the token contract
    transfers,       \* transfers the token contract made out of the vault
    deposits,        \* number of external deposits so far
    ledger,          \* env.ledger().sequence()
    lastCall         \* the entry point last invoked, its arguments and result

vars == <<config, roles, proposals, nextProposalId, dailySpent, weeklySpent,
          velocity, retryStates, disputes, arbitrators, cancellations,
          delegations, audit, balance, transfers, deposits, ledger, lastCall>>

\* The storage a handler reads and writes, as one record.
Storage ==
    [config |-> config, roles |-> roles, proposals |-> proposals,
     nextProposalId |-> nextProposalId, dailySpent |-> dailySpent,
     weeklySpent |-> weeklySpent, velocity |-> velocity,
     retryStates |-> retryStates, disputes |-> disputes,
     arbitrators |-> arbitrators, cancellations |-> cancellations,
     delegations |-> delegations, audit |-> audit, balance |-> balance,
     transfers |-> transfers]

\* A host that keeps the writes of a failed call.
HostCommitAlways(before, out) == out.st

\* Soroban keeps the writes of a call that returns Ok and discards the
\* writes of a call that returns Err.
HostCommit(before, out) == IF out.res = "Ok" THEN out.st ELSE before

\* The longest audit chain explored: the three entries of the set-up and
\* three more.
MaxAudit == 6

\* One invocation of an entry point: run the handler, let the host commit or
\* roll back, record the call.
Invoke(call, out) ==
    LET c == HostCommit(Storage, out) IN
    /\ Len(c.audit.entries) <= MaxAudit
    /\ config' = c.config
    /\ roles' = c.roles
    /\ proposals' = c.proposals
    /\ nextProposalId' = c.nextProposalId
    /\ dailySpent' = c.dailySpent
    /\ weeklySpent' = c.weeklySpent
    /\ velocity' = c.velocity
    /\ retryStates' = c.retryStates
    /\ disputes' = c.disputes
    /\ arbitrators' = c.arbitrators
    /\ cancellations' = c.cancellations
    /\ delegations' = c.delegations
    /\ audit' = c.audit
    /\ balance' = c.balance
    /\ transfers' = c.transfers
    /\ lastCall' = [call EXCEPT !.res = out.res]
    /\ UNCHANGED <<deposits, ledger>>

\* ------------------------------------------------------------------ storage

\* The role lookup answering Admin for an address that has no role.
get_role_default_admin(st, addr) == Get(st.roles, addr, "Admin")

get_role(st, addr) == Get(st.roles, addr, "Member")

get_day_number(now) == (now * SECONDS_PER_LEDGER) \div SECONDS_PER_DAY

get_week_number(now) == (now * SECONDS_PER_LEDGER) \div SECONDS_PER_WEEK

get_daily_spent(st, day) == Get(st.dailySpent, day, 0)

get_weekly_spent(st, week) == Get(st.weeklySpent, week, 0)

add_daily_spent(st, day, amount) ==
    [st EXCEPT !.dailySpent = Put(@, day, get_daily_spent(st, day) + amount)]

add_weekly_spent(st, week, amount) ==
    [st EXCEPT !.weeklySpent = Put(@, week, get_weekly_spent(st, week) + amount)]

\* The refund as a plain subtraction, the floor at zero forgotten.
RefundUnfloored(st, now, amount) ==
    LET today == get_day_number(now)
        week  == get_week_number(now)
    IN [st EXCEPT !.dailySpent = Put(@, today, get_daily_spent(st, today) - amount),
                  !.weeklySpent = Put(@, week, get_weekly_spent(st, week) - amount)]

\* saturating_sub(amount).max(0) on the buckets of the current day and week.
refund_spending_limits(st, now, amount) ==
    LET today == get_day_number(now)
        week  == get_week_number(now)
        refunded_daily  == Max(get_daily_spent(st, today) - amount, 0)
        refunded_weekly == Max(get_weekly_spent(st, week) - amount, 0)
    IN [st EXCEPT !.dailySpent = Put(@, today, refunded_daily),
                  !.weeklySpent = Put(@, week, refunded_weekly)]

\* The history pruned to the window; the check fails when it is full.
PruneVelocity(history, ts, window) ==
    SelectSeq(history, LAMBDA t : t > Max(ts - window, 0))

check_and_update_velocity(st, addr, now) ==
    LET ts      == now * SECONDS_PER_LEDGER
        history == Get(st.velocity, addr, <<>>)
        updated == PruneVelocity(history, ts, st.config.velocity_limit.window)
    IN IF Len(updated) >= st.config.velocity_limit.limit
       THEN [ok |-> FALSE, st |-> st]
       ELSE [ok |-> TRUE,
             st |-> [st EXCEPT !.velocity = Put(@, addr, Append(updated, ts))]]

\* token::transfer out of the vault for proposal id.
token_transfer(st, id, to, amount) ==
    [st EXCEPT !.balance = @ - amount,
               !.transfers = Append(@, [id |-> id, to |-> to, amount |-> amount])]

\* token::transfer_to_vault
token_transfer_to_vault(st, amount) == [st EXCEPT !.balance = @ + amount]

\* ----------------------------------------------------------------- propose

\* ------------------------------------------------------------ audit chain

\* The hashes are u64 (types.rs:357-359); the model keeps their low bits.
AUDIT_HASH_BITS == 20

\* The discriminants of AuditAction.
AuditActionCode(action) ==
    CASE action = "Initialize" -> 0
      [] action = "ProposeTransfer" -> 1
      [] action = "ApproveProposal" -> 2
      [] action = "ExecuteProposal" -> 3
      [] action = "RejectProposal" -> 4
      [] action = "SetRole" -> 5
      [] action = "AddSigner" -> 6
      [] action = "RemoveSigner" -> 7
      [] action = "UpdateLimits" -> 8
      [] action = "UpdateThreshold" -> 9

\* The length of an address in its string form: the same for every address.
IdentityLen(actor) == 56

\* One step of the order-sensitive mixing function.
Mix(h, x) == (h * 31 + x) % Pow2(AUDIT_HASH_BITS)

\* hash = H(prev_hash, action, actor_identity_len, target, timestamp), with
\* the parameters in the order of the call at lib.rs:1815-1822.
compute_audit_hash(action, actor, target, timestamp, prev_hash) ==
    Mix(Mix(Mix(Mix(prev_hash, AuditActionCode(action)), IdentityLen(actor)),
            target), timestamp)

\* An append that forgets the last hash: every entry starts a chain.
CreateUnchainedEntry(st, now, action, actor, target) ==
    LET timestamp == now * SECONDS_PER_LEDGER
        entry == [id |-> Len(st.audit.entries) + 1,
                  action |-> action,
                  actor |-> actor,
                  target |-> target,
                  timestamp |-> timestamp,
                  prev_hash |-> 0,
                  hash |-> compute_audit_hash(action, actor, target,
                                              timestamp, 0)]
    IN [st EXCEPT !.audit = [entries |-> Append(@.entries, entry),
                             last_hash |-> entry.hash]]

\* Append: read the last hash (0 if none), compute the hash, store the entry
\* under the next id, move the last-hash pointer.
create_audit_entry(st, now, action, actor, target) ==
    LET timestamp == now * SECONDS_PER_LEDGER
        prev_hash == st.audit.last_hash
        entry == [id |-> Len(st.audit.entries) + 1,
                  action |-> action,
                  actor |-> actor,
                  target |-> target,
                  timestamp |-> timestamp,
                  prev_hash |-> prev_hash,
                  hash |-> compute_audit_hash(action, actor, target,
                                              timestamp, prev_hash)]
    IN [st EXCEPT !.audit = [entries |-> Append(@.entries, entry),
                             last_hash |-> entry.hash]]

\* Lines 1812-1834: the check of the entries id..end_id, one after the other.
RECURSIVE VerifyFrom(_, _, _)
VerifyFrom(st, id, end_id) ==
    IF id > end_id THEN "true"
    ELSE IF id \notin 1..Len(st.audit.entries) THEN "AuditEntryNotFound"
    ELSE LET entry == st.audit.entries[id]
             computed_hash == compute_audit_hash(entry.action, entry.actor,
                                                 entry.target, entry.timestamp,
                                                 entry.prev_hash)
         IN IF computed_hash # entry.hash THEN "false"
            ELSE IF id > 1 /\ entry.prev_hash # st.audit.entries[id - 1].hash
                 THEN "false"
            ELSE VerifyFrom(st, id + 1, end_id)

verify_audit_trail(st, start_id, end_id) ==
    IF start_id > end_id THEN Ret("InvalidAmount", st)
    ELSE Ret(VerifyFrom(st, start_id, end_id), st)

\* Threshold strategy Fixed: the configured threshold, whatever the amount.
calculate_threshold(cfg, amount) == cfg.threshold

\* Every prerequisite exists and is an earlier proposal.
validate_dependencies(st, proposal_id, depends_on) ==
    \A i \in 1..Len(depends_on) :
        depends_on[i] \in DOMAIN st.proposals /\ depends_on[i] # proposal_id

NewProposal(st, now, proposal_id, proposer, recipient, amount, conditions, actual_insurance, depends_on) ==
    [id |-> proposal_id,
     proposer |-> proposer,
     recipient |-> recipient,
     amount |-> amount,
     approvals |-> <<>>,
     abstentions |-> <<>>,
     status |-> "Pending",
     conditions |-> conditions,
     created_at |-> now,
     expires_at |-> now + PROPOSAL_EXPIRY_LEDGERS,
     unlock_ledger |-> 0,
     insurance_amount |-> actual_insurance,
     snapshot_signers |-> st.config.signers,
     depends_on |-> depends_on,
     voting_deadline |-> IF st.config.default_voting_deadline > 0
                         THEN now + st.config.default_voting_deadline
                         ELSE 0]

\* The reservation left for execution time: nothing is added at propose.
ReserveNothing(st, now, amount) == st

\* Step 11: reserve the amount in the buckets of the current day and week.
ReserveSpending(st, now, amount) ==
    add_weekly_spent(add_daily_spent(st, get_day_number(now), amount),
                     get_week_number(now), amount)

\* Steps 10-12: lock the insurance, reserve the amount, take the next id,
\* validate the dependencies, store the proposal.
ReserveAndStore(st, now, proposer, recipient, amount, conditions, actual_insurance, depends_on) ==
    LET s1 == IF actual_insurance > 0
              THEN token_transfer_to_vault(st, actual_insurance) ELSE st
        s2 == ReserveSpending(s1, now, amount)
        proposal_id == s2.nextProposalId
        s3 == [s2 EXCEPT !.nextProposalId = @ + 1]
    IN IF ~validate_dependencies(s3, proposal_id, depends_on)
       THEN Ret("ProposalNotFound", s3)
       ELSE Ret("Ok",
                create_audit_entry(
                    [s3 EXCEPT !.proposals =
                        Put(@, proposal_id,
                            NewProposal(s3, now, proposal_id, proposer,
                                        recipient, amount, conditions,
                                        actual_insurance, depends_on))],
                    now, "ProposeTransfer", proposer, proposal_id))

\* The limits with the per-proposal cap forgotten: only day and week count.
LimitCheckPeriodsOnly(st, now, amount) ==
    IF get_daily_spent(st, get_day_number(now)) + amount
         > st.config.daily_limit THEN "ExceedsDailyLimit"
    ELSE IF get_weekly_spent(st, get_week_number(now)) + amount
              > st.config.weekly_limit THEN "ExceedsWeeklyLimit"
    ELSE "Ok"

\* Steps 7-9: the per-proposal, daily and weekly limits (no reputation boost).
LimitCheck(st, now, amount) ==
    IF amount > st.config.spending_limit THEN "ExceedsProposalLimit"
    ELSE IF get_daily_spent(st, get_day_number(now)) + amount
              > st.config.daily_limit THEN "ExceedsDailyLimit"
    ELSE IF get_weekly_spent(st, get_week_number(now)) + amount
              > st.config.weekly_limit THEN "ExceedsWeeklyLimit"
    ELSE "Ok"

propose_transfer_internal(st, now, proposer, recipient, amount, conditions, insurance_amount, depends_on) ==
    IF get_role(st, proposer) \notin {"Treasurer", "Admin"}
    THEN Ret("InsufficientRole", st)
    ELSE LET v == check_and_update_velocity(st, proposer, now) IN
         IF ~v.ok THEN Ret("VelocityLimitExceeded", st)
         ELSE IF amount <= 0 THEN Ret("InvalidAmount", v.st)
         ELSE IF LimitCheck(v.st, now, amount) # "Ok"
              THEN Ret(LimitCheck(v.st, now, amount), v.st)
         ELSE ReserveAndStore(v.st, now, proposer, recipient, amount,
                              conditions, Max(insurance_amount, 0), depends_on)

\* -------------------------------------------------------------- approve

\* The transition rule with the quorum conjunct forgotten.
VotesSufficeNoQuorum(cfg, p) ==
    Len(p.approvals) >= calculate_threshold(cfg, p.amount)

\* The transition rule with the abstentions counted toward the threshold.
VotesSufficeCountingAbstentions(cfg, p) ==
    LET quorum_votes == Len(p.approvals) + Len(p.abstentions)
        threshold_reached == quorum_votes >= calculate_threshold(cfg, p.amount)
        quorum_reached == cfg.quorum = 0 \/ quorum_votes >= cfg.quorum
    IN threshold_reached /\ quorum_reached

\* Lines 655-664: the votes after the new one was appended.
VotesSuffice(cfg, p) ==
    LET approval_count == Len(p.approvals)
        quorum_votes == approval_count + Len(p.abstentions)
        threshold_reached == approval_count >= calculate_threshold(cfg, p.amount)
        quorum_reached == cfg.quorum = 0 \/ quorum_votes >= cfg.quorum
    IN threshold_reached /\ quorum_reached

\* The time-lock applied only above the threshold amount, not at it.
TimelockUnlockStrict(cfg, amount, now) ==
    IF amount > cfg.timelock_threshold THEN now + cfg.timelock_delay ELSE 0

\* Lines 672-678: the time-lock of a proposal approved at ledger now.
TimelockUnlock(cfg, amount, now) ==
    IF amount >= cfg.timelock_threshold THEN now + cfg.timelock_delay ELSE 0

\* The double-vote check with the abstentions forgotten.
HasVotedApprovalsOnly(p, voter) == Contains(p.approvals, voter)

\* Lines 647-650.
HasVoted(p, voter) == Contains(p.approvals, voter) \/ Contains(p.abstentions, voter)

\* Lines 652-683: append the approval, evaluate threshold and quorum, store.
RecordApproval(cfg, p, signer, now) ==
    LET p1 == [p EXCEPT !.approvals = Append(@, signer)] IN
    IF VotesSuffice(cfg, p1)
    THEN [p1 EXCEPT !.status = "Approved",
                    !.unlock_ledger = TimelockUnlock(cfg, p1.amount, now)]
    ELSE p1

\* The checks of a vote with the snapshot check left out.
VoteChecksWithoutSnapshot(st, now, signer, proposal_id) ==
    IF ~Contains(st.config.signers, signer) THEN Ret("NotASigner", st)
    ELSE IF get_role(st, signer) \notin {"Treasurer", "Admin"}
         THEN Ret("InsufficientRole", st)
    ELSE IF proposal_id \notin DOMAIN st.proposals
         THEN Ret("ProposalNotFound", st)
    ELSE LET p == st.proposals[proposal_id] IN
         IF p.status # "Pending" THEN Ret("ProposalNotPending", st)
         ELSE IF now > p.expires_at
              THEN Ret("ProposalExpired",
                       [st EXCEPT !.proposals[proposal_id].status = "Expired"])
         ELSE IF p.voting_deadline > 0 /\ now > p.voting_deadline
              THEN Ret("VotingDeadlinePassed",
                       [st EXCEPT !.proposals[proposal_id].status = "Rejected"])
         ELSE IF HasVoted(p, signer) THEN Ret("AlreadyApproved", st)
         ELSE Ret("Ok", st)

\* Lines 605-645: the checks both kinds of vote go through before recording.
VoteChecks(st, now, signer, proposal_id) ==
    IF ~Contains(st.config.signers, signer) THEN Ret("NotASigner", st)
    ELSE IF get_role(st, signer) \notin {"Treasurer", "Admin"}
         THEN Ret("InsufficientRole", st)
    ELSE IF proposal_id \notin DOMAIN st.proposals
         THEN Ret("ProposalNotFound", st)
    ELSE LET p == st.proposals[proposal_id] IN
         IF ~Contains(p.snapshot_signers, signer)
         THEN Ret("VoterNotInSnapshot", st)
         ELSE IF p.status # "Pending" THEN Ret("ProposalNotPending", st)
         ELSE IF now > p.expires_at
              THEN Ret("ProposalExpired",
                       [st EXCEPT !.proposals[proposal_id].status = "Expired"])
         ELSE IF p.voting_deadline > 0 /\ now > p.voting_deadline
              THEN Ret("VotingDeadlinePassed",
                       [st EXCEPT !.proposals[proposal_id].status = "Rejected"])
         ELSE IF HasVoted(p, signer) THEN Ret("AlreadyApproved", st)
         ELSE Ret("Ok", st)

approve_proposal(st, now, signer, proposal_id) ==
    LET chk == VoteChecks(st, now, signer, proposal_id) IN
    IF chk.res # "Ok" THEN chk
    ELSE Ret("Ok",
             create_audit_entry(
                 [st EXCEPT !.proposals[proposal_id] =
                      RecordApproval(st.config, @, signer, now)],
                 now, "ApproveProposal", signer, proposal_id))

\* Abstention: the same checks as an approval; recorded in abstentions only.
abstain_proposal(st, now, signer, proposal_id) ==
    LET chk == VoteChecks(st, now, signer, proposal_id) IN
    IF chk.res # "Ok" THEN chk
    ELSE Ret("Ok", [st EXCEPT !.proposals[proposal_id].abstentions =
                        Append(@, signer)])

\* -------------------------------------------------------------- execute

NoRetry == [retry_count |-> 0, next_retry_ledger |-> 0, last_retry_ledger |-> 0]

get_retry_state(st, proposal_id) == Get(st.retryStates, proposal_id, NoRetry)

is_retryable_error(err) == err \in {"InsufficientBalance", "ConditionsNotMet"}

\* A condition DateAfter(l) holds after ledger l; BalanceAbove(x) holds when
\* the vault holds more than x.  All conditions must hold.
ConditionHolds(st, now, c) ==
    IF c.kind = "DateAfter" THEN now > c.v
    ELSE IF c.kind = "DateBefore" THEN now < c.v
    ELSE st.balance > c.v

evaluate_conditions(st, now, p) ==
    \A i \in 1..Len(p.conditions) : ConditionHolds(st, now, p.conditions[i])

\* Every proposal this one depends on has been executed.
ensure_dependencies_executable(st, p) ==
    \A i \in 1..Len(p.depends_on) :
        /\ p.depends_on[i] \in DOMAIN st.proposals
        /\ st.proposals[p.depends_on[i]].status = "Executed"

\* The recorded votes still meet the threshold and quorum now configured.
ensure_vote_requirements_satisfied(cfg, p) == VotesSuffice(cfg, p)

\* The backoff doubling without end, the cap on the exponent forgotten.
BackoffUncapped(retry_config, retry_count) ==
    retry_config.initial_backoff_ledgers * Pow2(retry_count - 1)

\* Lines 2727-2729: initial_backoff * 2^min(retry_count - 1, 10).
Backoff(retry_config, retry_count) ==
    retry_config.initial_backoff_ledgers
        * Pow2(Min(retry_count - 1, MAX_BACKOFF_EXPONENT))

schedule_retry(st, proposal_id, retry_config, now) ==
    LET old == get_retry_state(st, proposal_id)
        retry_count == old.retry_count + 1
    IN IF retry_count > retry_config.max_retries
       THEN Ret("RetryError", st)
       ELSE Ret("Ok",
                [st EXCEPT !.retryStates =
                    Put(@, proposal_id,
                        [retry_count |-> retry_count,
                         next_retry_ledger |->
                             now + Backoff(retry_config, retry_count),
                         last_retry_ledger |-> now])])

\* The gate with the backoff check forgotten: only exhaustion is refused.
RetryGateNoBackoff(st, now, proposal_id) ==
    LET retry_state == get_retry_state(st, proposal_id)
        rc == st.config.retry_config
    IN IF /\ proposal_id \in DOMAIN st.retryStates
          /\ retry_state.retry_count > 0
          /\ rc.enabled
          /\ retry_state.retry_count >= rc.max_retries
       THEN "RetryError"
       ELSE "Ok"

\* Lines 754-767: a proposal that already failed may only be attempted again
\* while retries remain and after its backoff.
RetryGate(st, now, proposal_id) ==
    LET retry_state == get_retry_state(st, proposal_id)
        rc == st.config.retry_config
    IN IF proposal_id \in DOMAIN st.retryStates /\ retry_state.retry_count > 0
       THEN IF rc.enabled /\ retry_state.retry_count >= rc.max_retries
            THEN "RetryError"
            ELSE IF now < retry_state.next_retry_ledger
                 THEN "RetryError"
                 ELSE "Ok"
       ELSE "Ok"

try_execute_transfer(st, now, p) ==
    IF Len(p.conditions) > 0 /\ ~evaluate_conditions(st, now, p)
    THEN Ret("ConditionsNotMet", st)
    ELSE IF st.balance < p.amount + p.insurance_amount
         THEN Ret("InsufficientBalance", st)
    ELSE LET s1 == token_transfer(st, p.id, p.recipient, p.amount) IN
         Ret("Ok", IF p.insurance_amount > 0
                   THEN token_transfer(s1, p.id, p.proposer, p.insurance_amount)
                   ELSE s1)

\* The expiry check alone, the time-lock check forgotten.
ExpiryOnly(p, now) ==
    IF now > p.expires_at THEN "ProposalExpired" ELSE "Ok"

\* Lines 734-746.
ExpiryAndTimelock(p, now) ==
    IF now > p.expires_at THEN "ProposalExpired"
    ELSE IF p.unlock_ledger > 0 /\ now < p.unlock_ledger THEN "TimelockNotExpired"
    ELSE "Ok"

\* The attempt with every failure handed back to the caller, retryable or not.
AttemptWithoutRetry(st, now, proposal_id) ==
    LET p == st.proposals[proposal_id]
        exec_result == try_execute_transfer(st, now, p)
    IN IF exec_result.res = "Ok"
       THEN Ret("Ok", [exec_result.st EXCEPT
                           !.proposals[proposal_id].status = "Executed"])
       ELSE Ret(exec_result.res, st)

\* The attempt scheduling a retry whether or not the retry policy is enabled.
AttemptAlwaysRetry(st, now, proposal_id) ==
    LET p == st.proposals[proposal_id]
        exec_result == try_execute_transfer(st, now, p)
    IN IF exec_result.res = "Ok"
       THEN Ret("Ok", [exec_result.st EXCEPT
                           !.proposals[proposal_id].status = "Executed"])
       ELSE IF is_retryable_error(exec_result.res)
            THEN schedule_retry(st, proposal_id, st.config.retry_config, now)
            ELSE Ret(exec_result.res, st)

\* The attempt leaving the proposal Approved after a transfer that succeeded.
AttemptWithoutMarking(st, now, proposal_id) ==
    LET p == st.proposals[proposal_id]
        exec_result == try_execute_transfer(st, now, p)
    IN IF exec_result.res = "Ok"
       THEN Ret("Ok", exec_result.st)
       ELSE IF is_retryable_error(exec_result.res)
            THEN IF ~st.config.retry_config.enabled
                 THEN Ret(exec_result.res, st)
                 ELSE schedule_retry(st, proposal_id, st.config.retry_config, now)
            ELSE Ret(exec_result.res, st)

\* Lines 769-830: attempt the transfer; a retryable failure schedules a
\* retry and reports success.
AttemptExecution(st, now, proposal_id) ==
    LET p == st.proposals[proposal_id]
        exec_result == try_execute_transfer(st, now, p)
    IN IF exec_result.res = "Ok"
       THEN Ret("Ok", [exec_result.st EXCEPT
                           !.proposals[proposal_id].status = "Executed"])
       ELSE IF is_retryable_error(exec_result.res)
            THEN IF ~st.config.retry_config.enabled
                 THEN Ret(exec_result.res, st)
                 ELSE schedule_retry(st, proposal_id, st.config.retry_config, now)
            ELSE Ret(exec_result.res, st)

\* An execution that does not look at the dependencies.
ExecuteIgnoringDependencies(st, now, executor, proposal_id) ==
    IF proposal_id \notin DOMAIN st.proposals THEN Ret("ProposalNotFound", st)
    ELSE LET p == st.proposals[proposal_id] IN
         IF p.status = "Executed" THEN Ret("ProposalAlreadyExecuted", st)
         ELSE IF p.status # "Approved" THEN Ret("ProposalNotApproved", st)
         ELSE IF ExpiryAndTimelock(p, now) = "ProposalExpired"
              THEN Ret("ProposalExpired",
                       [st EXCEPT !.proposals[proposal_id].status = "Expired"])
         ELSE IF ExpiryAndTimelock(p, now) # "Ok"
              THEN Ret(ExpiryAndTimelock(p, now), st)
         ELSE IF ~ensure_vote_requirements_satisfied(st.config, p)
              THEN Ret("QuorumNotReached", st)
         ELSE IF RetryGate(st, now, proposal_id) # "Ok"
              THEN Ret(RetryGate(st, now, proposal_id), st)
         ELSE AttemptExecution(st, now, proposal_id)

execute_proposal(st, now, executor, proposal_id) ==
    IF proposal_id \notin DOMAIN st.proposals THEN Ret("ProposalNotFound", st)
    ELSE LET p == st.proposals[proposal_id] IN
         IF p.status = "Executed" THEN Ret("ProposalAlreadyExecuted", st)
         ELSE IF p.status # "Approved" THEN Ret("ProposalNotApproved", st)
         ELSE IF ExpiryAndTimelock(p, now) = "ProposalExpired"
              THEN Ret("ProposalExpired",
                       [st EXCEPT !.proposals[proposal_id].status = "Expired"])
         ELSE IF ExpiryAndTimelock(p, now) # "Ok"
              THEN Ret(ExpiryAndTimelock(p, now), st)
         ELSE IF ~ensure_dependencies_executable(st, p)
              THEN Ret("ProposalNotApproved", st)
         ELSE IF ~ensure_vote_requirements_satisfied(st.config, p)
              THEN Ret("QuorumNotReached", st)
         ELSE IF RetryGate(st, now, proposal_id) # "Ok"
              THEN Ret(RetryGate(st, now, proposal_id), st)
         ELSE AttemptExecution(st, now, proposal_id)

retry_execution(st, now, executor, proposal_id) ==
    IF ~st.config.retry_config.enabled THEN Ret("RetryError", st)
    ELSE IF get_retry_state(st, proposal_id).retry_count
                >= st.config.retry_config.max_retries
         THEN Ret("RetryError", st)
    ELSE execute_proposal(create_audit_entry(st, now, "ExecuteProposal",
                                             executor, proposal_id),
                          now, executor, proposal_id)

\* ------------------------------------------------- reject, cancel, amend

\* Lines 908-927: half of the insurance stays in the vault, the rest goes
\* back to the proposer (slash_percentage defaults to 50).
SlashInsurance(st, p) ==
    LET slash_amount == (p.insurance_amount * 50) \div 100
        return_amount == p.insurance_amount - slash_amount
    IN IF p.insurance_amount > 0 /\ return_amount > 0
       THEN token_transfer(st, p.id, p.proposer, return_amount)
       ELSE st

\* A rejection that gives the reservation back, as a cancellation does.
RejectAndRefund(st, now, p) ==
    [refund_spending_limits(SlashInsurance(st, p), now, p.amount)
        EXCEPT !.proposals[p.id].status = "Rejected"]

\* Lines 908-932: what a rejection writes; the reserved spend stays reserved.
RejectWrites(st, now, p) ==
    [SlashInsurance(st, p) EXCEPT !.proposals[p.id].status = "Rejected"]

reject_proposal(st, now, rejector, proposal_id) ==
    IF proposal_id \notin DOMAIN st.proposals THEN Ret("ProposalNotFound", st)
    ELSE LET p == st.proposals[proposal_id] IN
         IF get_role(st, rejector) # "Admin" /\ rejector # p.proposer
         THEN Ret("Unauthorized", st)
         ELSE IF p.status # "Pending" THEN Ret("ProposalNotPending", st)
         ELSE Ret("Ok", RejectWrites(st, now, p))

cancel_proposal(st, now, canceller, proposal_id) ==
    IF proposal_id \notin DOMAIN st.proposals THEN Ret("ProposalNotFound", st)
    ELSE LET p == st.proposals[proposal_id] IN
         IF p.status = "Cancelled" THEN Ret("ProposalAlreadyCancelled", st)
         ELSE IF p.status # "Pending" THEN Ret("ProposalNotPending", st)
         ELSE IF get_role(st, canceller) # "Admin" /\ canceller # p.proposer
              THEN Ret("Unauthorized", st)
         ELSE LET s1 == refund_spending_limits(st, now, p.amount) IN
              Ret("Ok",
                  create_audit_entry(
                      [s1 EXCEPT !.proposals[proposal_id].status = "Cancelled",
                                 !.cancellations =
                                     Put(@, proposal_id,
                                         [proposal_id |-> proposal_id,
                                          cancelled_by |-> canceller,
                                          refunded_amount |-> p.amount])],
                      now, "RejectProposal", canceller, proposal_id))

\* Lines 1063-1083: keep the reservation in step with the amended amount.
AmendReservation(st, now, old_amount, new_amount) ==
    LET today == get_day_number(now)
        week  == get_week_number(now)
    IN IF new_amount > old_amount
       THEN LET increase == new_amount - old_amount IN
            IF get_daily_spent(st, today) + increase > st.config.daily_limit
            THEN Ret("ExceedsDailyLimit", st)
            ELSE IF get_weekly_spent(st, week) + increase > st.config.weekly_limit
                 THEN Ret("ExceedsWeeklyLimit", st)
            ELSE Ret("Ok", add_weekly_spent(add_daily_spent(st, today, increase),
                                            week, increase))
       ELSE IF old_amount > new_amount
            THEN Ret("Ok", refund_spending_limits(st, now, old_amount - new_amount))
            ELSE Ret("Ok", st)

\* An amendment that leaves the votes already cast in place.
AmendKeepingVotes(st, now, proposer, proposal_id, new_recipient, new_amount) ==
    IF proposal_id \notin DOMAIN st.proposals THEN Ret("ProposalNotFound", st)
    ELSE LET p == st.proposals[proposal_id] IN
         IF p.proposer # proposer THEN Ret("Unauthorized", st)
         ELSE IF p.status # "Pending" THEN Ret("ProposalNotPending", st)
         ELSE IF new_amount <= 0 THEN Ret("InvalidAmount", st)
         ELSE IF new_amount > st.config.spending_limit
              THEN Ret("ExceedsProposalLimit", st)
         ELSE LET r == AmendReservation(st, now, p.amount, new_amount) IN
              IF r.res # "Ok" THEN r
              ELSE Ret("Ok",
                       [r.st EXCEPT !.proposals[proposal_id] =
                           [p EXCEPT !.recipient = new_recipient,
                                     !.amount = new_amount,
                                     !.status = "Pending",
                                     !.unlock_ledger = 0]])

amend_proposal(st, now, proposer, proposal_id, new_recipient, new_amount) ==
    IF proposal_id \notin DOMAIN st.proposals THEN Ret("ProposalNotFound", st)
    ELSE LET p == st.proposals[proposal_id] IN
         IF p.proposer # proposer THEN Ret("Unauthorized", st)
         ELSE IF p.status # "Pending" THEN Ret("ProposalNotPending", st)
         ELSE IF new_amount <= 0 THEN Ret("InvalidAmount", st)
         ELSE IF new_amount > st.config.spending_limit
              THEN Ret("ExceedsProposalLimit", st)
         ELSE LET r == AmendReservation(st, now, p.amount, new_amount) IN
              IF r.res # "Ok" THEN r
              ELSE Ret("Ok",
                       [r.st EXCEPT !.proposals[proposal_id] =
                           [p EXCEPT !.recipient = new_recipient,
                                     !.amount = new_amount,
                                     !.approvals = <<>>,
                                     !.abstentions = <<>>,
                                     !.status = "Pending",
                                     !.unlock_ledger = 0]])

extend_voting_deadline(st, now, admin, proposal_id, new_deadline) ==
    IF get_role(st, admin) # "Admin" THEN Ret("Unauthorized", st)
    ELSE IF proposal_id \notin DOMAIN st.proposals THEN Ret("ProposalNotFound", st)
    ELSE IF st.proposals[proposal_id].status # "Pending"
         THEN Ret("ProposalNotPending", st)
    ELSE Ret("Ok", [st EXCEPT !.proposals[proposal_id].voting_deadline =
                                  new_deadline])

\* ------------------------------------------------- signers and thresholds

\* s without its first element equal to x (Vec::remove at the found index).
RemoveFirst(s, x) ==
    LET idx == CHOOSE i \in 1..Len(s) : s[i] = x /\ \A j \in 1..(i - 1) : s[j] # x
    IN [i \in 1..(Len(s) - 1) |-> IF i < idx THEN s[i] ELSE s[i + 1]]

set_role(st, now, admin, target, role) ==
    IF get_role(st, admin) # "Admin" THEN Ret("Unauthorized", st)
    ELSE Ret("Ok", create_audit_entry([st EXCEPT !.roles = Put(@, target, role)],
                                      now, "SetRole", admin, 0))

add_signer(st, now, admin, new_signer) ==
    IF get_role(st, admin) # "Admin" THEN Ret("Unauthorized", st)
    ELSE IF Contains(st.config.signers, new_signer)
         THEN Ret("SignerAlreadyExists", st)
    ELSE Ret("Ok",
             create_audit_entry(
                 [st EXCEPT !.config.signers = Append(@, new_signer)],
                 now, "AddSigner", admin, 0))

remove_signer(st, now, admin, signer) ==
    IF get_role(st, admin) # "Admin" THEN Ret("Unauthorized", st)
    ELSE IF ~Contains(st.config.signers, signer) THEN Ret("SignerNotFound", st)
    ELSE IF Len(st.config.signers) - 1 < st.config.threshold
         THEN Ret("CannotRemoveSigner", st)
    ELSE Ret("Ok",
             create_audit_entry(
                 [st EXCEPT !.config.signers = RemoveFirst(@, signer)],
                 now, "RemoveSigner", admin, 0))

update_limits(st, now, admin, spending_limit, daily_limit) ==
    IF get_role(st, admin) # "Admin" THEN Ret("Unauthorized", st)
    ELSE IF spending_limit <= 0 \/ daily_limit <= 0
         THEN Ret("InvalidAmount", st)
    ELSE Ret("Ok",
             create_audit_entry(
                 [st EXCEPT !.config.spending_limit = spending_limit,
                            !.config.daily_limit = daily_limit],
                 now, "UpdateLimits", admin, 0))

update_threshold(st, now, admin, threshold) ==
    IF get_role(st, admin) # "Admin" THEN Ret("Unauthorized", st)
    ELSE IF threshold < 1 THEN Ret("ThresholdTooLow", st)
    ELSE IF threshold > Len(st.config.signers) THEN Ret("ThresholdTooHigh", st)
    ELSE Ret("Ok",
             create_audit_entry([st EXCEPT !.config.threshold = threshold],
                                now, "UpdateThreshold", admin, 0))

update_quorum(st, admin, quorum) ==
    IF get_role(st, admin) # "Admin" THEN Ret("Unauthorized", st)
    ELSE IF quorum > Len(st.config.signers) THEN Ret("QuorumTooHigh", st)
    ELSE Ret("Ok", [st EXCEPT !.config.quorum = quorum])

\* ----------------------------------------------------------------- disputes

\* One dispute per proposal: disputes maps the proposal id to the dispute.
file_dispute(st, now, disputer, proposal_id) ==
    IF ~Contains(st.config.signers, disputer) THEN Ret("NotASigner", st)
    ELSE IF proposal_id \notin DOMAIN st.proposals THEN Ret("ProposalNotFound", st)
    ELSE IF st.proposals[proposal_id].status \notin {"Pending", "Approved"}
         THEN Ret("ProposalNotPending", st)
    ELSE IF proposal_id \in DOMAIN st.disputes THEN Ret("AlreadyApproved", st)
    ELSE Ret("Ok", [st EXCEPT !.disputes =
                        Put(@, proposal_id, [disputer |-> disputer,
                                             status |-> "Filed"])])

\* The ruling rejecting the proposal whatever its status, the guard forgotten.
DisputableAlways(status) == TRUE

\* Lines 2256-2257: a ruling for the disputer rejects the proposal only while
\* it is still Pending or Approved.
Disputable(status) == status \in {"Pending", "Approved"}

resolve_dispute(st, now, arbitrator, proposal_id, resolution) ==
    IF arbitrator \notin st.arbitrators THEN Ret("Unauthorized", st)
    ELSE IF proposal_id \notin DOMAIN st.disputes THEN Ret("ProposalNotFound", st)
    ELSE IF st.disputes[proposal_id].status \in {"Resolved", "Dismissed"}
         THEN Ret("ProposalAlreadyExecuted", st)
    ELSE LET p == st.proposals[proposal_id]
             s1 == IF resolution = "InFavorOfDisputer" /\ Disputable(p.status)
                   THEN [st EXCEPT !.proposals[proposal_id].status = "Rejected"]
                   ELSE st
         IN Ret("Ok", [s1 EXCEPT !.disputes[proposal_id].status =
                           IF resolution = "Dismissed" THEN "Dismissed"
                           ELSE "Resolved"])

\* --------------------------------------------------------------- delegation

\* A chain is followed for at most this many hops.
MAX_DELEGATION_DEPTH == 3

\* A delegation with a non-zero expiry has expired once that ledger is reached.
DelegationExpired(d, now) == d.expiry_ledger # 0 /\ d.expiry_ledger <= now

\* The records of signer's delegations that are active and unexpired.
ActiveDelegations(st, now, signer) ==
    {i \in 1..Len(st.delegations) :
        /\ st.delegations[i].delegator = signer
        /\ st.delegations[i].is_active
        /\ ~DelegationExpired(st.delegations[i], now)}

\* The latest of them.
get_active_delegation(st, now, signer) ==
    LET a == ActiveDelegations(st, now, signer)
    IN st.delegations[CHOOSE i \in a : \A j \in a : j <= i]

\* The resolver following one hop too many before it gives up.
RECURSIVE ResolveOneHopFurther(_, _, _, _)
ResolveOneHopFurther(st, now, signer, depth) ==
    IF depth > MAX_DELEGATION_DEPTH THEN "DelegationChainTooDeep"
    ELSE IF ActiveDelegations(st, now, signer) = {} THEN signer
    ELSE ResolveOneHopFurther(st, now,
                              get_active_delegation(st, now, signer).delegate,
                              depth + 1)

\* resolve(signer): the signer itself without an active, unexpired
\* delegation, else the resolution of the delegate one level deeper; at
\* depth 3 the chain is too deep.
RECURSIVE resolve_delegation_chain(_, _, _, _)
resolve_delegation_chain(st, now, signer, depth) ==
    IF depth >= MAX_DELEGATION_DEPTH THEN "DelegationChainTooDeep"
    ELSE IF ActiveDelegations(st, now, signer) = {} THEN signer
    ELSE resolve_delegation_chain(st, now,
                                  get_active_delegation(st, now, signer).delegate,
                                  depth + 1)

get_effective_voter(st, now, signer) ==
    Ret(resolve_delegation_chain(st, now, signer, 0), st)

\* What the forward cycle check may answer once it has walked the whole depth
\* bound without meeting the delegator: the description of the check does not
\* settle it.
BeyondDepthBound == {"Ok", "DelegationChainTooDeep", "CircularDelegation"}

\* The forward walk from the delegate: meeting the delegator within the depth
\* bound is a cycle.
RECURSIVE is_circular_delegation(_, _, _, _, _, _)
is_circular_delegation(st, now, delegator, current, depth, beyond) ==
    IF depth >= MAX_DELEGATION_DEPTH THEN beyond
    ELSE IF current = delegator THEN "CircularDelegation"
    ELSE IF ActiveDelegations(st, now, current) = {} THEN "Ok"
    ELSE is_circular_delegation(st, now, delegator,
                                get_active_delegation(st, now, current).delegate,
                                depth + 1, beyond)

\* The creation with the already-delegated check forgotten.
DelegateWhileDelegated(st, now, delegator, delegate, expiry_ledger, beyond) ==
    IF delegator = delegate THEN Ret("CannotDelegateToSelf", st)
    ELSE IF ~Contains(st.config.signers, delegator)
         THEN Ret("DelegatorNotSigner", st)
    ELSE IF ~Contains(st.config.signers, delegate)
         THEN Ret("DelegateNotSigner", st)
    ELSE IF is_circular_delegation(st, now, delegator, delegate, 0, beyond) # "Ok"
         THEN Ret(is_circular_delegation(st, now, delegator, delegate, 0, beyond), st)
    ELSE Ret("Ok", [st EXCEPT !.delegations =
                        Append(@, [delegator |-> delegator,
                                   delegate |-> delegate,
                                   expiry_ledger |-> expiry_ledger,
                                   is_active |-> TRUE,
                                   created_at |-> now])])

delegate_voting_power(st, now, delegator, delegate, expiry_ledger, beyond) ==
    IF delegator = delegate THEN Ret("CannotDelegateToSelf", st)
    ELSE IF ~Contains(st.config.signers, delegator)
         THEN Ret("DelegatorNotSigner", st)
    ELSE IF ~Contains(st.config.signers, delegate)
         THEN Ret("DelegateNotSigner", st)
    ELSE IF ActiveDelegations(st, now, delegator) # {}
         THEN Ret("DelegationAlreadyExists", st)
    ELSE IF is_circular_delegation(st, now, delegator, delegate, 0, beyond) # "Ok"
         THEN Ret(is_circular_delegation(st, now, delegator, delegate, 0, beyond), st)
    ELSE Ret("Ok", [st EXCEPT !.delegations =
                        Append(@, [delegator |-> delegator,
                                   delegate |-> delegate,
                                   expiry_ledger |-> expiry_ledger,
                                   is_active |-> TRUE,
                                   created_at |-> now])])

\* Only the delegator revokes; the record stays, marked inactive.
revoke_delegation(st, delegator, delegation_id) ==
    IF delegation_id \notin 1..Len(st.delegations)
    THEN Ret("DelegationNotFound", st)
    ELSE IF st.delegations[delegation_id].delegator # delegator
         THEN Ret("Unauthorized", st)
    ELSE Ret("Ok", [st EXCEPT !.delegations[delegation_id].is_active = FALSE])

\* ------------------------------------------------------------------ actions

\* A call on another identity: target is the delegate, or the signer asked
\* about.
CallOn(op, caller, target, id, amount) ==
    [op |-> op, caller |-> caller, target |-> target, id |-> id,
     amount |-> amount, res |-> "Ok"]

Call(op, caller, id, amount) == CallOn(op, caller, "none", id, amount)

ProposeTransfer(proposer, recipient, amount, conditions, insurance_amount) ==
    Invoke(Call("propose", proposer, nextProposalId, amount),
           propose_transfer_internal(Storage, ledger, proposer, recipient,
                                     amount, conditions, insurance_amount,
                                     <<>>))

ProposeTransferWithDeps(proposer, recipient, amount, depends_on) ==
    Invoke(Call("propose", proposer, nextProposalId, amount),
           propose_transfer_internal(Storage, ledger, proposer, recipient,
                                     amount, <<>>, 0, depends_on))

ApproveProposal(signer, proposal_id) ==
    Invoke(Call("approve", signer, proposal_id, 0),
           approve_proposal(Storage, ledger, signer, proposal_id))

AbstainProposal(signer, proposal_id) ==
    Invoke(Call("abstain", signer, proposal_id, 0),
           abstain_proposal(Storage, ledger, signer, proposal_id))

ExecuteProposal(executor, proposal_id) ==
    Invoke(Call("execute", executor, proposal_id, 0),
           execute_proposal(Storage, ledger, executor, proposal_id))

RetryExecution(executor, proposal_id) ==
    Invoke(Call("retry_execution", executor, proposal_id, 0),
           retry_execution(Storage, ledger, executor, proposal_id))

RejectProposal(rejector, proposal_id) ==
    Invoke(Call("reject", rejector, proposal_id, 0),
           reject_proposal(Storage, ledger, rejector, proposal_id))

CancelProposal(canceller, proposal_id) ==
    Invoke(Call("cancel", canceller, proposal_id, 0),
           cancel_proposal(Storage, ledger, canceller, proposal_id))

AmendProposal(proposer, proposal_id, new_recipient, new_amount) ==
    Invoke(Call("amend", proposer, proposal_id, new_amount),
           amend_proposal(Storage, ledger, proposer, proposal_id,
                          new_recipient, new_amount))

ExtendVotingDeadline(admin, proposal_id, new_deadline) ==
    Invoke(Call("extend_voting_deadline", admin, proposal_id, 0),
           extend_voting_deadline(Storage, ledger, admin, proposal_id,
                                  new_deadline))

FileDispute(disputer, proposal_id) ==
    Invoke(Call("file_dispute", disputer, proposal_id, 0),
           file_dispute(Storage, ledger, disputer, proposal_id))

ResolveDispute(arbitrator, proposal_id, resolution) ==
    Invoke(Call("resolve_dispute", arbitrator, proposal_id, 0),
           resolve_dispute(Storage, ledger, arbitrator, proposal_id, resolution))

AddSigner(admin, new_signer) ==
    Invoke(Call("add_signer", admin, 0, 0),
           add_signer(Storage, ledger, admin, new_signer))

RemoveSigner(admin, signer) ==
    Invoke(Call("remove_signer", admin, 0, 0),
           remove_signer(Storage, ledger, admin, signer))

\* The amount field of the call record carries the new threshold or quorum.
UpdateThreshold(admin, threshold) ==
    Invoke(Call("update_threshold", admin, 0, threshold),
           update_threshold(Storage, ledger, admin, threshold))

\* The target field of the call record carries the address the role goes to.
SetRole(admin, target, role) ==
    Invoke(CallOn("set_role", admin, target, 0, 0),
           set_role(Storage, ledger, admin, target, role))

\* The amount field of the call record carries the new per-proposal limit.
UpdateLimits(admin, spending_limit, daily_limit) ==
    Invoke(Call("update_limits", admin, 0, spending_limit),
           update_limits(Storage, ledger, admin, spending_limit, daily_limit))

\* A read: the id and amount fields of the call record carry the range, the
\* result field the answer.
VerifyAuditTrail(start_id, end_id) ==
    Invoke(Call("verify_audit_trail", "anyone", start_id, end_id),
           verify_audit_trail(Storage, start_id, end_id))

UpdateQuorum(admin, quorum) ==
    Invoke(Call("update_quorum", admin, 0, quorum),
           update_quorum(Storage, admin, quorum))

\* The id field of the call record carries the id the new delegation gets,
\* the amount field its expiry ledger.
DelegateVotingPower(delegator, delegate, expiry_ledger, beyond) ==
    Invoke(CallOn("delegate_voting_power", delegator, delegate,
                  Len(delegations) + 1, expiry_ledger),
           delegate_voting_power(Storage, ledger, delegator, delegate,
                                 expiry_ledger, beyond))

RevokeDelegation(delegator, delegation_id) ==
    Invoke(Call("revoke_delegation", delegator, delegation_id, 0),
           revoke_delegation(Storage, delegator, delegation_id))

\* A read: the result field of the call record is the effective voter.
GetEffectiveVoter(signer) ==
    Invoke(CallOn("get_effective_voter", "anyone", signer, 0, 0),
           get_effective_voter(Storage, ledger, signer))

\* The environment: the ledger sequence moves forward to a later ledger.
AdvanceLedger(to) ==
    /\ to > ledger
    /\ ledger' = to
    /\ lastCall' = Call("advance", "env", 0, 0)
    /\ UNCHANGED <<config, roles, proposals, nextProposalId, dailySpent,
                   weeklySpent, velocity, retryStates, disputes, arbitrators,
                   cancellations, delegations, audit, balance, transfers,
                   deposits>>

\* The environment: somebody pays tokens into the vault.
Deposit(amount) ==
    /\ deposits < MaxDeposits
    /\ deposits' = deposits + 1
    /\ balance' = balance + amount
    /\ lastCall' = Call("deposit", "env", 0, amount)
    /\ UNCHANGED <<config, roles, proposals, nextProposalId, dailySpent,
                   weeklySpent, velocity, retryStates, disputes, arbitrators,
                   cancellations, delegations, audit, transfers, ledger>>

\* ---------------------------------------------------------- initial states

\* The configuration of test_multisig_approval / test_timelock_violation:
\* three signers, the admin an Admin and the other two Treasurers.
BaseConfig ==
    [signers |-> <<"admin", "s1", "s2">>,
     threshold |-> 2,
     quorum |-> 0,
     spending_limit |-> 1000,
     daily_limit |-> 5000,
     weekly_limit |-> 10000,
     timelock_threshold |-> 500,
     timelock_delay |-> 200,
     velocity_limit |-> [limit |-> 10, window |-> 3600],
     default_voting_deadline |-> 0,
     retry_config |-> [enabled |-> FALSE, max_retries |-> 0,
                       initial_backoff_ledgers |-> 0]]

BaseRoles ==
    [a \in {"admin", "s1", "s2"} |-> IF a = "admin" THEN "Admin" ELSE "Treasurer"]

\* Lines 73-88: the checks initialize makes on its configuration.
InitializeChecks(cfg) ==
    IF Len(cfg.signers) = 0 THEN "NoSigners"
    ELSE IF cfg.threshold < 1 THEN "ThresholdTooLow"
    ELSE IF cfg.threshold > Len(cfg.signers) THEN "ThresholdTooHigh"
    ELSE IF cfg.quorum > Len(cfg.signers) THEN "QuorumTooHigh"
    ELSE IF cfg.spending_limit <= 0 \/ cfg.daily_limit <= 0
              \/ cfg.weekly_limit <= 0 THEN "InvalidAmount"
    ELSE "Ok"

NoAudit == [audit |-> [entries |-> <<>>, last_hash |-> 0]]

\* The entries of initialize (lib.rs:118) and of the two set_role calls that
\* made s1 and s2 Treasurers (lib.rs:1143), all at ledger l.
InitialAudit(l) ==
    create_audit_entry(
        create_audit_entry(
            create_audit_entry(NoAudit, l, "Initialize", "admin", 0),
            l, "SetRole", "admin", 0),
        l, "SetRole", "admin", 0).audit

\* The vault right after initialize and set_role, at ledger l, holding b.
InitWith(cfg, l, b) ==
    /\ config = cfg
    /\ roles = BaseRoles
    /\ proposals = EmptyMap
    /\ nextProposalId = 1
    /\ dailySpent = EmptyMap
    /\ weeklySpent = EmptyMap
    /\ velocity = EmptyMap
    /\ retryStates = EmptyMap
    /\ disputes = EmptyMap
    /\ arbitrators = {"admin"}
    /\ cancellations = EmptyMap
    /\ delegations = <<>>
    /\ audit = InitialAudit(l)
    /\ balance = b
    /\ transfers = <<>>
    /\ deposits = 0
    /\ ledger = l
    /\ lastCall = Call("initialize", "admin", 0, 0)

\* ------------------------------------------------ lifecycle specification

LifeConfig ==
    [BaseConfig EXCEPT !.threshold = 1, !.retry_config = [enabled |-> TRUE, max_retries |-> 1,
                                         initial_backoff_ledgers |-> 10]]

\* The proposals carry a condition that is unmet at the first ledger, so an
\* early execute is a transient failure and a later one succeeds.
LifeConditions == <<[kind |-> "DateAfter", v |-> 150]>>

LifeLedgers == {200}

Init == InitWith(LifeConfig, 100, 100)

Ids == 1..MaxProposals

\* A call that returns Err leaves the storage as it was (HostCommit), so a
\* specification records such calls only for the entry points whose results
\* its claims are about; Done restricts the others to the calls that succeed.
Done == lastCall'.res = "Ok"

Terminal == {"Executed", "Rejected", "Expired", "Cancelled"}

\* The lifecycle specification also records every call made on a proposal
\* that is in a terminal status, whatever it returns.
OnTerminal(id) == id \in DOMAIN proposals /\ proposals[id].status \in Terminal

Next ==
    \/ /\ nextProposalId <= MaxProposals
       /\ ProposeTransfer("s1", "user", 100, LifeConditions, 0) /\ Done
    \/ \E id \in Ids : ApproveProposal("s1", id) /\ (Done \/ OnTerminal(id))
    \/ \E id \in Ids : AbstainProposal("admin", id) /\ (Done \/ OnTerminal(id))
    \/ \E id \in Ids : ExecuteProposal("s1", id) /\ (Done \/ OnTerminal(id))
    \/ \E id \in Ids : RetryExecution("s1", id) /\ (Done \/ OnTerminal(id))
    \/ \E id \in Ids : RejectProposal("admin", id) /\ (Done \/ OnTerminal(id))
    \/ \E id \in Ids : CancelProposal("s1", id) /\ (Done \/ OnTerminal(id))
    \/ \E id \in Ids :
         AmendProposal("s1", id, "user", 100) /\ (Done \/ OnTerminal(id))
    \/ \E id \in Ids :
         ExtendVotingDeadline("admin", id, 150) /\ (Done \/ OnTerminal(id))
    \/ \E id \in Ids : FileDispute("s2", id) /\ (Done \/ OnTerminal(id))
    \/ \E id \in Ids :
         ResolveDispute("admin", id, "InFavorOfDisputer")
             /\ (Done \/ OnTerminal(id))
    \/ \E l \in LifeLedgers : AdvanceLedger(l)

Spec == Init /\ [][Next]_vars

\* C1: once a proposal's status is Executed, Rejected, Expired or Cancelled,
\* no step of any entry point changes that status again.
TerminalIsFinal ==
    [][\A id \in DOMAIN proposals :
          proposals[id].status \in Terminal
              => /\ id \in DOMAIN proposals'
                 /\ proposals'[id].status = proposals[id].status]_vars

\* A dispute filed while the proposal was open is resolved for the disputer
\* after the proposal was cancelled, and the proposal is still Cancelled.
TerminalIsFinalWitness ==
    /\ lastCall.op = "resolve_dispute"
    /\ lastCall.res = "Ok"
    /\ lastCall.id \in DOMAIN proposals
    /\ proposals[lastCall.id].status = "Cancelled"

\* --------------------------------------------------- voting specification

\* <<threshold, quorum>> pairs: quorum disabled, quorum above the threshold,
\* quorum equal to the threshold.
VoteRules == {<<2, 0>>, <<1, 2>>, <<2, 2>>}

Voters == {"admin", "s1", "s2"}

InitVote ==
    \E r \in VoteRules :
        InitWith([BaseConfig EXCEPT !.threshold = r[1], !.quorum = r[2]], 100, 1000)

\* Votes are recorded whatever their result; the other calls when they
\* succeed (a failed call leaves the storage as it was).
NextVote ==
    \/ /\ nextProposalId <= MaxProposals
       /\ ProposeTransfer("s1", "user", 100, <<>>, 0)
       /\ Done
    \/ \E id \in Ids, a \in Voters : ApproveProposal(a, id)
    \/ \E id \in Ids, a \in Voters : AbstainProposal(a, id) /\ Done
    \/ \E id \in Ids : AmendProposal("s1", id, "user", 200) /\ Done

SpecVote == InitVote /\ [][NextVote]_vars

\* C2: after a successful approve on a Pending proposal the status is Approved
\* exactly when the approvals reach the required threshold and the quorum is
\* disabled or reached by approvals plus abstentions, and Pending otherwise;
\* with threshold 2 and quorum 0 the first approval leaves it Pending and the
\* second makes it Approved.
ApprovedIffThresholdAndQuorum ==
    [][(lastCall'.op = "approve" /\ lastCall'.res = "Ok") =>
        LET id == lastCall'.id
            p  == proposals[id]
            q  == proposals'[id]
            a  == Len(q.approvals)
            v  == Len(q.approvals) + Len(q.abstentions)
        IN /\ p.status = "Pending"
           /\ a = Len(p.approvals) + 1
           /\ q.status = IF /\ a >= calculate_threshold(config, q.amount)
                            /\ (config.quorum = 0 \/ v >= config.quorum)
                         THEN "Approved" ELSE "Pending"
           /\ (config.threshold = 2 /\ config.quorum = 0) =>
                 /\ a = 1 => q.status = "Pending"
                 /\ a = 2 => q.status = "Approved"]_vars

\* An approval that met the threshold but not the quorum left the proposal
\* Pending.
ApprovedIffThresholdAndQuorumWitness ==
    /\ lastCall.op = "approve"
    /\ lastCall.res = "Ok"
    /\ config.quorum > 0
    /\ Len(proposals[lastCall.id].approvals) >= config.threshold
    /\ proposals[lastCall.id].status = "Pending"

TimelockAmounts == {100, 500, 600}

\* Ledgers around the unlock ledger of a proposal approved at 100 (300) and
\* around the expiry of a proposal created at 100 (121060).
TimelockLedgers == {250, 299, 300, 121060, 121061}

InitTimelock == \E b \in {100, 1000} : InitWith(BaseConfig, 100, b)

NextTimelock ==
    \/ /\ nextProposalId <= MaxProposals
       /\ \E a \in TimelockAmounts : ProposeTransfer("s1", "user", a, <<>>, 0)
       /\ Done
    \/ \E id \in Ids, a \in {"admin", "s1"} : ApproveProposal(a, id) /\ Done
    \/ \E id \in Ids : ExecuteProposal("s1", id)
    \/ \E l \in TimelockLedgers : AdvanceLedger(l)

SpecTimelock == InitTimelock /\ [][NextTimelock]_vars

\* C4: a proposal with a non-zero unlock_ledger never becomes Executed at a
\* ledger below it; within the expiry, execute below unlock_ledger fails with
\* TimelockNotExpired and leaves the proposal Approved, and execute at or
\* after unlock_ledger goes on to the balance check, which alone decides.
TimelockRespected ==
    [][/\ \A id \in DOMAIN proposals :
            (/\ proposals[id].unlock_ledger # 0
             /\ proposals[id].status # "Executed"
             /\ proposals'[id].status = "Executed")
            => ledger >= proposals[id].unlock_ledger
       /\ (/\ lastCall'.op = "execute"
           /\ lastCall'.id \in DOMAIN proposals
           /\ proposals[lastCall'.id].status = "Approved"
           /\ proposals[lastCall'.id].unlock_ledger # 0
           /\ ledger <= proposals[lastCall'.id].expires_at)
          => LET p == proposals[lastCall'.id] IN
             IF ledger < p.unlock_ledger
             THEN /\ lastCall'.res = "TimelockNotExpired"
                  /\ proposals'[p.id] = p
             ELSE IF balance >= p.amount
                  THEN /\ lastCall'.res = "Ok"
                       /\ proposals'[p.id].status = "Executed"
                  ELSE /\ lastCall'.res = "InsufficientBalance"
                       /\ proposals'[p.id] = p]_vars

\* An execute one ledger before the unlock ledger was turned away.
TimelockRespectedWitness ==
    /\ lastCall.op = "execute"
    /\ lastCall.res = "TimelockNotExpired"
    /\ proposals[lastCall.id].status = "Approved"
    /\ ledger = proposals[lastCall.id].unlock_ledger - 1

SpendConfig ==
    [BaseConfig EXCEPT !.threshold = 1, !.daily_limit = 300, !.weekly_limit = 350]

SpendAmounts == {100, 300}

\* The first ledger of the second day and of the second week.
SpendLedgers == {17280, 120960}

\* One proposal more than elsewhere, so that a counter that is already
\* above zero is added to.
SpendCap == MaxProposals + 1

InitSpend == InitWith(SpendConfig, 100, 1000)

\* propose is recorded whatever its result; the other calls when they succeed.
NextSpend ==
    \/ \E a \in SpendAmounts :
          /\ ProposeTransfer("s1", "user", a, <<>>, 0)
          /\ nextProposalId <= SpendCap \/ ~Done
    \/ \E id \in 1..SpendCap : ApproveProposal("admin", id) /\ Done
    \/ \E id \in 1..SpendCap : ExecuteProposal("s1", id) /\ Done
    \/ \E id \in 1..SpendCap : CancelProposal("s1", id) /\ Done
    \/ \E id \in 1..SpendCap : RejectProposal("admin", id) /\ Done
    \/ \E l \in SpendLedgers : AdvanceLedger(l)

SpecSpend == InitSpend /\ [][NextSpend]_vars

\* Every bucket but the one under key holds the same in m and n.
OtherBucketsEqual(m, n, key) ==
    \A k \in (DOMAIN m \cup DOMAIN n) \ {key} : Get(m, k, 0) = Get(n, k, 0)

RejectKeepsReservation ==
    [][(lastCall'.op = "reject" /\ lastCall'.res = "Ok") =>
        /\ proposals[lastCall'.id].status = "Pending"
        /\ proposals'[lastCall'.id].status = "Rejected"
        /\ OtherBucketsEqual(dailySpent, dailySpent', -1)
        /\ OtherBucketsEqual(weeklySpent, weeklySpent', -1)]_vars

\* A proposal was rejected and its amount is still counted as spent today.
RejectKeepsReservationWitness ==
    /\ lastCall.op = "reject"
    /\ lastCall.res = "Ok"
    /\ proposals[lastCall.id].status = "Rejected"
    /\ Get(dailySpent, get_day_number(ledger), 0) >= proposals[lastCall.id].amount
    /\ proposals[lastCall.id].created_at = ledger

\* ---------------------------------------------------- retry specification

\* <<max_retries, initial_backoff_ledgers>>: the policy of the example, and
\* one with enough retries for the exponent to reach its cap.
RetryPolicies == {<<3, 10>>, <<12, 1>>}

\* No condition, or one that holds after ledger 200.
RetryConditions == {<<>>, <<[kind |-> "DateAfter", v |-> 200]>>}

\* An empty vault: every transfer fails for want of balance until a deposit.
InitRetry ==
    \E r \in RetryPolicies :
        InitWith([BaseConfig EXCEPT
                     !.threshold = 1,
                     !.retry_config = [enabled |-> TRUE, max_retries |-> r[1],
                                       initial_backoff_ledgers |-> r[2]]],
                 100, 0)

\* The long policy is followed on a single proposal, the short one on all.
RetryCap == IF config.retry_config.max_retries > 3 THEN 1 ELSE MaxProposals

\* execute and retry_execution are recorded whatever their result; the ledger
\* moves to the ledger some retry is due at, or one ledger short of it.
NextRetry ==
    \/ /\ nextProposalId <= RetryCap
       /\ \E c \in RetryConditions : ProposeTransfer("s1", "user", 100, c, 0)
       /\ Done
    \/ \E id \in DOMAIN proposals : ApproveProposal("s1", id) /\ Done
    \/ \E id \in DOMAIN proposals : ExecuteProposal("s1", id)
    \/ \E id \in DOMAIN proposals : RetryExecution("s1", id)
    \/ \E id \in DOMAIN retryStates, early \in {0, 1} :
          AdvanceLedger(retryStates[id].next_retry_ledger - early)
    \/ Deposit(100)

SpecRetry == InitRetry /\ [][NextRetry]_vars

\* The attempt of proposal p at the current ledger would fail transiently.
TransientFailure(p) ==
    \/ \E i \in 1..Len(p.conditions) :
          p.conditions[i].kind = "DateAfter" /\ ledger <= p.conditions[i].v
    \/ balance < p.amount + p.insurance_amount

\* Proposal p is Approved, unexpired and unlocked, and its backoff is over.
Attemptable(p) ==
    /\ p.status = "Approved"
    /\ ledger <= p.expires_at
    /\ p.unlock_ledger = 0 \/ ledger >= p.unlock_ledger
    /\ p.id \in DOMAIN retryStates => ledger >= retryStates[p.id].next_retry_ledger

\* C9: an execute of an Approved proposal that fails transiently (vault
\* balance too low, or a condition unmet) while retry is enabled and retries
\* remain returns success, transfers nothing, leaves the proposal Approved
\* and raises its retry_count by exactly one.
TransientFailureSchedulesRetry ==
    [][(/\ lastCall'.op = "execute"
        /\ lastCall'.id \in DOMAIN proposals
        /\ Attemptable(proposals[lastCall'.id])
        /\ TransientFailure(proposals[lastCall'.id])
        /\ config.retry_config.enabled
        /\ Get(retryStates, lastCall'.id, NoRetry).retry_count
              < config.retry_config.max_retries)
       => /\ lastCall'.res = "Ok"
          /\ transfers' = transfers
          /\ balance' = balance
          /\ proposals' = proposals
          /\ lastCall'.id \in DOMAIN retryStates'
          /\ retryStates'[lastCall'.id].retry_count
               = Get(retryStates, lastCall'.id, NoRetry).retry_count + 1]_vars

\* A second failed attempt, for want of balance, was answered with success.
TransientFailureSchedulesRetryWitness ==
    /\ lastCall.op = "execute"
    /\ lastCall.res = "Ok"
    /\ proposals[lastCall.id].status = "Approved"
    /\ proposals[lastCall.id].conditions = <<>>
    /\ retryStates[lastCall.id].retry_count = 2
    /\ transfers = <<>>

\* C10: with retry enabled, max_retries m and initial backoff b, the k-th
\* transient failure in a row (1 <= k <= m), at ledger t, sets
\* next_retry_ledger to t + b * 2^min(k - 1, 10) (m = 3, b = 10: t + 10,
\* t + 20, t + 40), and the attempt after the m-th is refused with RetryError.
BackoffDoubles ==
    [][(/\ lastCall'.op \in {"execute", "retry_execution"}
        /\ lastCall'.id \in DOMAIN proposals
        /\ Attemptable(proposals[lastCall'.id])
        /\ TransientFailure(proposals[lastCall'.id])
        /\ config.retry_config.enabled)
       => LET id == lastCall'.id
              m  == config.retry_config.max_retries
              b  == config.retry_config.initial_backoff_ledgers
              k  == Get(retryStates, id, NoRetry).retry_count + 1
          IN IF k <= m
             THEN /\ lastCall'.res = "Ok"
                  /\ retryStates'[id].retry_count = k
                  /\ retryStates'[id].next_retry_ledger
                       = ledger + b * 2^(IF k - 1 < 10 THEN k - 1 ELSE 10)
                  /\ (m = 3 /\ b = 10) =>
                       retryStates'[id].next_retry_ledger - ledger
                         = CASE k = 1 -> 10 [] k = 2 -> 20 [] k = 3 -> 40
             ELSE /\ lastCall'.res = "RetryError"
                  /\ retryStates' = retryStates
                  /\ proposals' = proposals
                  /\ transfers' = transfers]_vars

\* The twelfth failure was scheduled with the capped backoff and the attempt
\* after it refused.
BackoffDoublesWitness ==
    /\ lastCall.op = "execute"
    /\ lastCall.res = "RetryError"
    /\ config.retry_config.max_retries = 12
    /\ retryStates[lastCall.id].retry_count = 12
    /\ retryStates[lastCall.id].next_retry_ledger
         = retryStates[lastCall.id].last_retry_ledger + 1024
    /\ ledger >= retryStates[lastCall.id].next_retry_ledger

\* -------------------------------------------------- signer specification

\* The admin adds and removes signers and moves the threshold and the quorum
\* while a proposal is voted on.  approve and remove_signer are recorded
\* whatever their result; the other calls when they succeed.
NextSigners ==
    \/ /\ nextProposalId <= MaxProposals
       /\ ProposeTransfer("s1", "user", 100, <<>>, 0)
       /\ Done
    \/ \E id \in Ids, a \in {"s1", "s2"} : ApproveProposal(a, id)
    \/ \E a \in {"s2", "eve"} : AddSigner("admin", a) /\ Done
    \/ \E a \in {"s2", "eve"} : RemoveSigner("admin", a)
    \/ \E t \in 1..3 : UpdateThreshold("admin", t) /\ Done
    \/ \E q \in {0, 3} : UpdateQuorum("admin", q) /\ Done

SpecSigners == InitWith(BaseConfig, 100, 1000) /\ [][NextSigners]_vars

\* C16: a signer in the signer snapshot of a Pending proposal can approve it
\* even after being removed from the live signer set: the approve succeeds
\* and records the vote.
SnapshotSignerCanApprove ==
    [][(/\ lastCall'.op = "approve"
        /\ lastCall'.id \in DOMAIN proposals
        /\ Contains(proposals[lastCall'.id].snapshot_signers, lastCall'.caller)
        /\ Get(roles, lastCall'.caller, "Member") \in {"Treasurer", "Admin"}
        /\ proposals[lastCall'.id].status = "Pending"
        /\ ledger <= proposals[lastCall'.id].expires_at
        /\ proposals[lastCall'.id].voting_deadline = 0
        /\ ~Contains(proposals[lastCall'.id].approvals, lastCall'.caller)
        /\ ~Contains(proposals[lastCall'.id].abstentions, lastCall'.caller))
       => /\ lastCall'.res = "Ok"
          /\ Contains(proposals'[lastCall'.id].approvals, lastCall'.caller)]_vars

\* C17: after initialization 1 <= threshold <= |signers| and quorum <=
\* |signers| hold in every state, whatever add_signer, remove_signer,
\* update_threshold and update_quorum calls are made; a remove_signer that
\* would leave fewer signers than the threshold fails and changes nothing.
ThresholdAndQuorumWithinSigners ==
    [][/\ 1 <= config'.threshold
       /\ config'.threshold <= Len(config'.signers)
       /\ config'.quorum <= Len(config'.signers)
       /\ (lastCall'.op = "remove_signer"
            /\ Len(config.signers) - 1 < config.threshold)
          => (lastCall'.res # "Ok" /\ config' = config)]_vars

\* ------------------------------------- expiry and deadline specification

\* No voting deadline, or one 50 ledgers after the proposal is created.
VotingDeadlines == {0, 50}

\* For a proposal created at ledger 100: the deadline and the ledger after
\* it (150, 151), the expiry and the ledger after it (121060, 121061).
DeadlineLedgers == {150, 151, 121060, 121061}

InitDeadline ==
    \E d \in VotingDeadlines :
        InitWith([BaseConfig EXCEPT !.threshold = 1,
                                    !.default_voting_deadline = d], 100, 1000)

\* approve and execute are recorded whatever their result.
NextDeadline ==
    \/ /\ nextProposalId <= MaxProposals
       /\ ProposeTransfer("s1", "user", 100, <<>>, 0)
       /\ Done
    \/ \E id \in Ids, a \in {"admin", "s1"} : ApproveProposal(a, id)
    \/ \E id \in Ids : ExecuteProposal("s1", id)
    \/ \E id \in Ids : ExtendVotingDeadline("admin", id, 121100) /\ Done
    \/ \E l \in DeadlineLedgers : AdvanceLedger(l)

SpecDeadline == InitDeadline /\ [][NextDeadline]_vars

\* C13: approve on a Pending proposal, or execute on an Approved one, at a
\* ledger after expires_at fails with ProposalExpired, records no vote, makes
\* no transfer and leaves the stored status Expired; at expires_at itself the
\* call is not treated as expired.
ExpiredCallStoresExpired ==
    [][(/\ lastCall'.id \in DOMAIN proposals
        /\ \/ /\ lastCall'.op = "approve"
              /\ proposals[lastCall'.id].status = "Pending"
           \/ /\ lastCall'.op = "execute"
              /\ proposals[lastCall'.id].status = "Approved")
       => LET p == proposals[lastCall'.id]
              q == proposals'[lastCall'.id]
          IN /\ ledger > p.expires_at =>
                  /\ lastCall'.res = "ProposalExpired"
                  /\ q.approvals = p.approvals
                  /\ transfers' = transfers
                  /\ q.status = "Expired"
             /\ ledger = p.expires_at => lastCall'.res # "ProposalExpired"]_vars

\* C20: an approve on a Pending proposal with a non-zero voting deadline, at
\* a ledger after the deadline but not after expires_at, fails with
\* VotingDeadlinePassed, records no vote and leaves the proposal Rejected;
\* after both the deadline and expires_at it leaves the proposal Expired.
DeadlinePassedStoresRejected ==
    [][(/\ lastCall'.op = "approve"
        /\ lastCall'.id \in DOMAIN proposals
        /\ proposals[lastCall'.id].status = "Pending"
        /\ proposals[lastCall'.id].voting_deadline # 0
        /\ ledger > proposals[lastCall'.id].voting_deadline)
       => LET p == proposals[lastCall'.id]
              q == proposals'[lastCall'.id]
          IN IF ledger <= p.expires_at
             THEN /\ lastCall'.res = "VotingDeadlinePassed"
                  /\ q.approvals = p.approvals
                  /\ q.status = "Rejected"
             ELSE /\ lastCall'.res = "ProposalExpired"
                  /\ q.approvals = p.approvals
                  /\ q.status = "Expired"]_vars

\* C12: while a proposal has retry state with retry_count > 0, an execute of
\* it (direct or through retry_execution) at a ledger before
\* next_retry_ledger is refused with RetryError; the transfer is not attempted
\* and the retry state does not change.  (The proposal is Approved and within
\* its expiry, the checks that come before the retry gate.)
BackoffEnforced ==
    [][(/\ lastCall'.op \in {"execute", "retry_execution"}
        /\ lastCall'.id \in DOMAIN proposals
        /\ lastCall'.id \in DOMAIN retryStates
        /\ retryStates[lastCall'.id].retry_count > 0
        /\ ledger < retryStates[lastCall'.id].next_retry_ledger
        /\ proposals[lastCall'.id].status = "Approved"
        /\ ledger <= proposals[lastCall'.id].expires_at)
       => /\ lastCall'.res = "RetryError"
          /\ transfers' = transfers
          /\ balance' = balance
          /\ retryStates' = retryStates
          /\ proposals' = proposals]_vars

\* A retry one ledger early was refused although the vault by then held
\* enough and retries remained.
BackoffEnforcedWitness ==
    /\ lastCall.op = "retry_execution"
    /\ lastCall.res = "RetryError"
    /\ proposals[lastCall.id].status = "Approved"
    /\ proposals[lastCall.id].conditions = <<>>
    /\ balance >= proposals[lastCall.id].amount
    /\ retryStates[lastCall.id].retry_count < config.retry_config.max_retries
    /\ ledger = retryStates[lastCall.id].next_retry_ledger - 1

\* The edges of the proposal state machine.
LifecycleEdges ==
    {<<"Pending", "Approved">>, <<"Pending", "Rejected">>,
     <<"Pending", "Expired">>, <<"Pending", "Cancelled">>,
     <<"Approved", "Executed">>, <<"Approved", "Expired">>}

InitFail ==
    \E e \in BOOLEAN :
        InitWith([BaseConfig EXCEPT
                     !.threshold = 1,
                     !.retry_config = [enabled |-> e, max_retries |-> 3,
                                       initial_backoff_ledgers |-> 10]],
                 100, 0)

\* Proposal 9 never exists: a dependency on it is refused.
NextFail ==
    \/ \E p \in {"s1", "eve"}, a \in {0, 100} :
          /\ ProposeTransfer(p, "user", a, <<>>, 0)
          /\ nextProposalId <= MaxProposals \/ ~Done
    \/ ProposeTransferWithDeps("s1", "user", 100, <<9>>)
    \/ \E id \in Ids, a \in {"s1", "eve"} : ApproveProposal(a, id)
    \/ \E id \in Ids : ExecuteProposal("s1", id)
    \/ \E id \in Ids : RetryExecution("s1", id)
    \/ \E id \in Ids, a \in {"admin", "s1", "s2", "eve"} : RejectProposal(a, id)
    \/ \E id \in Ids, a \in {"admin", "s1", "s2", "eve"} : CancelProposal(a, id)
    \/ \E id \in Ids, a \in {"s1", "s2"} : AmendProposal(a, id, "user", 200)
    \/ Deposit(100)
    \/ AdvanceLedger(110)

SpecFail == InitFail /\ [][NextFail]_vars

\* The storage is left as it was.
StorageUnchanged == Storage' = Storage

\* C11: an execute that fails returns its error and leaves proposal status,
\* retry state and balances as they were, with no retry scheduled; a
\* transient failure (balance too low, condition unmet) while the retry
\* policy is disabled is such a failure and is returned as it is.
FailedExecuteChangesNothing ==
    [][(lastCall'.op = "execute" /\ lastCall'.id \in DOMAIN proposals)
       => /\ lastCall'.res # "Ok" =>
               /\ proposals' = proposals
               /\ retryStates' = retryStates
               /\ balance' = balance
               /\ transfers' = transfers
          /\ (/\ Attemptable(proposals[lastCall'.id])
              /\ TransientFailure(proposals[lastCall'.id])
              /\ ~config.retry_config.enabled)
             => /\ lastCall'.res = IF balance < proposals[lastCall'.id].amount
                                   THEN "InsufficientBalance"
                                   ELSE "ConditionsNotMet"
                /\ lastCall'.id \notin DOMAIN retryStates']_vars

\* With the retry policy disabled an execute failed for want of balance.
FailedExecuteChangesNothingWitness ==
    /\ lastCall.op = "execute"
    /\ lastCall.res = "InsufficientBalance"
    /\ ~config.retry_config.enabled
    /\ proposals[lastCall.id].status = "Approved"
    /\ retryStates = EmptyMap

\* C14: an entry point that returns an error leaves all state (proposals,
\* spend counters, velocity history, proposal-id counter, retry state,
\* configuration, balances) as it was before the call; a call that returns
\* success has done what was asked, except an execute that returns success
\* after scheduling a retry.
ErrorLeavesStateUnchanged ==
    [][LET id == lastCall'.id
           op == lastCall'.op
       IN /\ lastCall'.res # "Ok" => StorageUnchanged
          /\ (lastCall'.res = "Ok" /\ op \notin {"deposit", "advance"}) =>
               CASE op = "propose" ->
                      id \notin DOMAIN proposals /\ id \in DOMAIN proposals'
                 [] op = "approve" ->
                      Contains(proposals'[id].approvals, lastCall'.caller)
                 [] op = "reject" -> proposals'[id].status = "Rejected"
                 [] op = "cancel" -> proposals'[id].status = "Cancelled"
                 [] op = "amend" -> proposals'[id].amount = lastCall'.amount
                 [] op \in {"execute", "retry_execution"} ->
                      \/ /\ proposals'[id].status = "Executed"
                         /\ Len(transfers') = Len(transfers) + 1
                      \/ /\ proposals' = proposals
                         /\ transfers' = transfers
                         /\ retryStates'[id].retry_count
                              = Get(retryStates, id, NoRetry).retry_count + 1]_vars

\* A propose of a non-positive amount failed after the handler had already
\* entered the call in the velocity history; the history is as before.
ErrorLeavesStateUnchangedWitness ==
    /\ lastCall.op = "propose"
    /\ lastCall.res = "InvalidAmount"
    /\ Get(velocity, lastCall.caller, <<>>) = <<>>

LimitAmounts == {-1, 0, 1, 1000, 1001}

\* propose is recorded whatever its result; the other calls when they succeed.
NextLimit ==
    \/ \E p \in {"admin", "s1"}, a \in LimitAmounts :
          /\ ProposeTransfer(p, "user", a, <<>>, 0)
          /\ nextProposalId <= MaxProposals \/ ~Done
    \/ \E id \in Ids : ApproveProposal("s2", id) /\ Done
    \/ \E id \in Ids, a \in {"admin", "s1"} : CancelProposal(a, id) /\ Done
    \/ \E id \in Ids : RejectProposal("admin", id) /\ Done
    \/ AdvanceLedger(17280)

SpecLimit == InitWith(BaseConfig, 100, 1000) /\ [][NextLimit]_vars

VelocityLimits == {1, 2}

VelocityWindow == 10

\* Enough proposals for a signer to go past either limit.
VelocityCap == MaxProposals + 2

VelocityLastLedger == 103

InitVelocity ==
    \E n \in VelocityLimits :
        InitWith([BaseConfig EXCEPT !.velocity_limit =
                      [limit |-> n, window |-> VelocityWindow]], 100, 1000)

\* propose is recorded whatever its result; the ledger moves one at a time.
NextVelocity ==
    \/ \E p \in {"admin", "s1"} :
          /\ ProposeTransfer(p, "user", 100, <<>>, 0)
          /\ nextProposalId <= VelocityCap \/ ~Done
    \/ /\ ledger < VelocityLastLedger
       /\ AdvanceLedger(ledger + 1)

SpecVelocity == InitVelocity /\ [][NextVelocity]_vars

\* The timestamps of h inside the closed window [ts - window, ts].
InClosedWindow(h, ts, window) ==
    SelectSeq(h, LAMBDA t : ts - window <= t /\ t <= ts)

\* C22: a propose by a signer is refused with VelocityLimitExceeded exactly
\* when the signer's recorded timestamps inside [now - window, now] already
\* number limit; otherwise now is appended to those timestamps, the older
\* ones dropped; so no signer has more than limit accepted proposals with
\* timestamps inside one window [t - window, t].
VelocityClosedWindow ==
    [][/\ lastCall'.op = "propose" =>
            LET a  == lastCall'.caller
                ts == ledger * SECONDS_PER_LEDGER
                h  == InClosedWindow(Get(velocity, a, <<>>), ts,
                                     config.velocity_limit.window)
            IN /\ lastCall'.res = "VelocityLimitExceeded"
                    <=> Len(h) >= config.velocity_limit.limit
               /\ lastCall'.res = "Ok" => velocity'[a] = Append(h, ts)
       /\ \A id \in DOMAIN proposals' :
             LET t == proposals'[id].created_at * SECONDS_PER_LEDGER
                 accepted == {j \in DOMAIN proposals' :
                                /\ proposals'[j].proposer = proposals'[id].proposer
                                /\ t - config.velocity_limit.window
                                     <= proposals'[j].created_at * SECONDS_PER_LEDGER
                                /\ proposals'[j].created_at * SECONDS_PER_LEDGER <= t}
             IN Cardinality(accepted) <= config.velocity_limit.limit]_vars

\* C30: a successful abstain by a signer who has not voted appends the signer
\* to the abstentions and leaves the approvals as they were; abstentions
\* count toward the quorum and never toward the threshold, so no proposal is
\* Approved with fewer approvals than the threshold, however many abstained;
\* a signer who abstained cannot approve afterwards.
AbstentionsCountForQuorumOnly ==
    [][/\ (lastCall'.op = "abstain" /\ lastCall'.res = "Ok") =>
            LET p == proposals[lastCall'.id]
                q == proposals'[lastCall'.id]
            IN /\ ~Contains(p.approvals, lastCall'.caller)
               /\ ~Contains(p.abstentions, lastCall'.caller)
               /\ q.abstentions = Append(p.abstentions, lastCall'.caller)
               /\ q.approvals = p.approvals
       /\ \A id \in DOMAIN proposals' :
             proposals'[id].status = "Approved"
                => Len(proposals'[id].approvals) >= config'.threshold
       /\ (lastCall'.op = "approve" /\ lastCall'.res = "Ok") =>
            LET q == proposals'[lastCall'.id] IN
            (/\ Len(q.approvals) >= config.threshold
             /\ Len(q.approvals) + Len(q.abstentions) >= config.quorum)
               => q.status = "Approved"
       /\ (/\ lastCall'.op = "approve"
           /\ lastCall'.id \in DOMAIN proposals
           /\ Contains(proposals[lastCall'.id].abstentions, lastCall'.caller))
          => /\ lastCall'.res # "Ok"
             /\ proposals' = proposals]_vars

\* With threshold 2 two signers abstained and the third approved: the quorum
\* is met by the three votes and the proposal is still Pending.
AbstentionsCountForQuorumOnlyWitness ==
    /\ lastCall.op = "approve"
    /\ lastCall.res = "Ok"
    /\ config.threshold = 2
    /\ config.quorum = 2
    /\ Len(proposals[lastCall.id].abstentions) = 2
    /\ Len(proposals[lastCall.id].approvals) = 1
    /\ proposals[lastCall.id].status = "Pending"

\* ----------------------------------------------- delegation specification

MaxDelegations == 3

\* Four signers, enough for a chain of three hops, and one outsider.
DelegationSigners == <<"admin", "s1", "s2", "s3">>

\* <<delegator, delegate, expiry ledger>>: the hops of the chain
\* admin -> s1 -> s2 -> s3 (the middle one expiring at ledger 200), the hops
\* back to admin that would close a cycle of two, three and four, and a
\* second delegate for s1.
DelegationRequests ==
    {<<"admin", "s1", 0>>, <<"s1", "s2", 200>>, <<"s2", "s3", 0>>,
     <<"s1", "admin", 0>>, <<"s2", "admin", 0>>, <<"s3", "admin", 0>>,
     <<"s1", "s3", 0>>}

InitDelegation ==
    InitWith([BaseConfig EXCEPT !.signers = DelegationSigners], 100, 1000)

\* delegate_voting_power and get_effective_voter are recorded whatever their
\* result, revoke_delegation by s1 when it succeeds.
NextDelegation ==
    \/ \E r \in DelegationRequests, b \in BeyondDepthBound :
          /\ DelegateVotingPower(r[1], r[2], r[3], b)
          /\ Len(delegations) < MaxDelegations \/ ~Done
    \/ \E id \in 1..MaxDelegations : RevokeDelegation("s1", id) /\ Done
    \/ \E s \in {"admin", "s1", "s2", "s3"} : GetEffectiveVoter(s)
    \/ AdvanceLedger(200)

SpecDelegation == InitDelegation /\ [][NextDelegation]_vars

\* The signer has an active, unexpired delegation in the current state.
Delegates(signer) == ActiveDelegations(Storage, ledger, signer) # {}

\* The delegate of that delegation.
DelegateOf(signer) == get_active_delegation(Storage, ledger, signer).delegate

\* C28: get_effective_voter follows the active, unexpired delegations hop by
\* hop: with no hop it answers the signer, with one or two hops the last
\* delegate (s1 -> s2 -> s3 resolves s1 and s2 to s3), and with three or more
\* hops it fails with DelegationChainTooDeep.
ResolvesUpToTwoHops ==
    [][lastCall'.op = "get_effective_voter" =>
         LET n0 == lastCall'.target IN
         IF ~Delegates(n0) THEN lastCall'.res = n0
         ELSE LET n1 == DelegateOf(n0) IN
              IF ~Delegates(n1) THEN lastCall'.res = n1
              ELSE LET n2 == DelegateOf(n1) IN
                   IF ~Delegates(n2) THEN lastCall'.res = n2
                   ELSE lastCall'.res = "DelegationChainTooDeep"]_vars

\* With admin -> s1 -> s2 -> s3 in place admin was asked about and the chain
\* found too deep, while s1 and s2 resolve to s3.
ResolvesUpToTwoHopsWitness ==
    /\ lastCall.op = "get_effective_voter"
    /\ lastCall.target = "admin"
    /\ lastCall.res = "DelegationChainTooDeep"
    /\ Delegates("s1") /\ DelegateOf("s1") = "s2"
    /\ Delegates("s2") /\ DelegateOf("s2") = "s3"
    /\ ~Delegates("s3")
    /\ resolve_delegation_chain(Storage, ledger, "s1", 0) = "s3"
    /\ resolve_delegation_chain(Storage, ledger, "s2", 0) = "s3"

\* C29: in every state a delegator has at most one active, unexpired
\* delegation; delegate_voting_power for a delegator who has one fails with
\* DelegationAlreadyExists and writes nothing; after the delegator revoked
\* it the record is inactive and the delegator resolves to itself.
OneActiveDelegation ==
    [][/\ \A i \in 1..Len(config'.signers) :
             Cardinality(ActiveDelegations(Storage', ledger',
                                           config'.signers[i])) <= 1
       /\ (/\ lastCall'.op = "delegate_voting_power"
           /\ lastCall'.caller # lastCall'.target
           /\ Contains(config.signers, lastCall'.caller)
           /\ Contains(config.signers, lastCall'.target)
           /\ Delegates(lastCall'.caller))
          => /\ lastCall'.res = "DelegationAlreadyExists"
             /\ delegations' = delegations
       /\ (/\ lastCall'.op = "revoke_delegation"
           /\ lastCall'.res = "Ok"
           /\ lastCall'.id \in ActiveDelegations(Storage, ledger, lastCall'.caller))
          => /\ ~delegations'[lastCall'.id].is_active
             /\ Len(delegations') = Len(delegations)
             /\ resolve_delegation_chain(Storage', ledger', lastCall'.caller, 0)
                  = lastCall'.caller]_vars

\* s1, who had revoked one delegation and made another, asked for a third
\* and was refused.
OneActiveDelegationWitness ==
    /\ lastCall.op = "delegate_voting_power"
    /\ lastCall.caller = "s1"
    /\ lastCall.res = "DelegationAlreadyExists"
    /\ \E i \in 1..Len(delegations) :
          delegations[i].delegator = "s1" /\ ~delegations[i].is_active
    /\ Delegates("s1")

\* ------------------------------------------- delegated-vote specification

\* Two signers delegate to the same third one.
VoteDelegations == {<<"s1", "s2", 0>>, <<"admin", "s2", 0>>}

\* approve is recorded whatever its result; the other calls when they succeed.
NextDelegatedVote ==
    \/ /\ nextProposalId <= MaxProposals
       /\ ProposeTransfer("s1", "user", 100, <<>>, 0)
       /\ Done
    \/ \E r \in VoteDelegations, b \in BeyondDepthBound :
          DelegateVotingPower(r[1], r[2], r[3], b) /\ Done
    \/ \E id \in Ids, a \in Voters : ApproveProposal(a, id)

SpecDelegatedVote == InitWith(BaseConfig, 100, 1000) /\ [][NextDelegatedVote]_vars

\* C26: an approve of a Pending proposal records the effective voter its
\* signer resolves to, and fails with AlreadyApproved when that effective
\* voter is already among the approvals or abstentions; so no effective
\* voter approves a proposal twice, not even through two signers who both
\* delegate to it.
EffectiveVoterVotesOnce ==
    [][(/\ lastCall'.op = "approve"
        /\ lastCall'.id \in DOMAIN proposals
        /\ proposals[lastCall'.id].status = "Pending")
       => LET p == proposals[lastCall'.id]
              q == proposals'[lastCall'.id]
              v == resolve_delegation_chain(Storage, ledger, lastCall'.caller, 0)
          IN IF HasVoted(p, v)
             THEN lastCall'.res = "AlreadyApproved" /\ q = p
             ELSE lastCall'.res = "Ok" => q.approvals = Append(p.approvals, v)]_vars

\* ------------------------------------------------------ audit specification

AuditFields ==
    {"id", "action", "actor", "target", "timestamp", "prev_hash", "hash"}

\* The entry with one of its fields replaced by another value.
Altered(entry, field) ==
    CASE field = "id" -> [entry EXCEPT !.id = @ + 1]
      [] field = "action" ->
           [entry EXCEPT !.action = IF @ = "SetRole" THEN "AddSigner"
                                    ELSE "SetRole"]
      [] field = "actor" ->
           [entry EXCEPT !.actor = IF @ = "admin" THEN "s1" ELSE "admin"]
      [] field = "target" -> [entry EXCEPT !.target = @ + 1]
      [] field = "timestamp" ->
           [entry EXCEPT !.timestamp = @ + SECONDS_PER_LEDGER]
      [] field = "prev_hash" ->
           [entry EXCEPT !.prev_hash = (@ + 1) % Pow2(AUDIT_HASH_BITS)]
      [] field = "hash" ->
           [entry EXCEPT !.hash = (@ + 1) % Pow2(AUDIT_HASH_BITS)]

\* Out of band: one field of one stored entry is overwritten behind the
\* contract's back.  The call record names the entry and the field.
Tamper(id, field) ==
    /\ id \in 1..Len(audit.entries)
    /\ audit' = [audit EXCEPT !.entries[id] = Altered(@, field)]
    /\ lastCall' = CallOn("tamper", "out-of-band", field, id, 0)
    /\ UNCHANGED <<config, roles, proposals, nextProposalId, dailySpent,
                   weeklySpent, velocity, retryStates, disputes, arbitrators,
                   cancellations, delegations, balance, transfers, deposits,
                   ledger>>

\* Threshold 1 or 2, retries enabled.
InitAudit ==
    \E t \in {1, 2} :
        InitWith([BaseConfig EXCEPT
                     !.threshold = t,
                     !.retry_config = [enabled |-> TRUE, max_retries |-> 2,
                                       initial_backoff_ledgers |-> 10]],
                 100, 1000)

\* The privileged calls when they succeed, and the verification of the
\* whole chain.
NextAudit ==
    \/ /\ nextProposalId <= MaxProposals
       /\ ProposeTransfer("s1", "user", 100, <<>>, 0)
       /\ Done
    \/ \E id \in Ids, a \in {"admin", "s2"} : ApproveProposal(a, id) /\ Done
    \/ \E id \in Ids : ExecuteProposal("admin", id) /\ Done
    \/ \E id \in Ids : RetryExecution("admin", id) /\ Done
    \/ \E id \in Ids : RejectProposal("admin", id) /\ Done
    \/ \E id \in Ids : CancelProposal("s1", id) /\ Done
    \/ SetRole("admin", "s2", "Member") /\ Done
    \/ AddSigner("admin", "eve") /\ Done
    \/ RemoveSigner("admin", "eve") /\ Done
    \/ UpdateLimits("admin", 2000, 5000) /\ Done
    \/ \E t \in {1, 2} : UpdateThreshold("admin", t) /\ Done
    \/ AdvanceLedger(110)
    \/ VerifyAuditTrail(1, Len(audit.entries))

SpecAudit == InitAudit /\ [][NextAudit]_vars

\* The stored entries are numbered from 1 and each is linked to the one
\* before it.
ChainLinked(entries) ==
    \A n \in 1..Len(entries) :
        /\ entries[n].id = n
        /\ entries[n].prev_hash = IF n = 1 THEN 0 ELSE entries[n - 1].hash

\* C23: the audit entries have consecutive ids starting at 1, entry 1 has
\* prev_hash 0, every later entry has the hash of the entry before it as its
\* prev_hash, and every step leaves the entries already stored as they are.
AuditChainAppendOnly ==
    [][/\ ChainLinked(audit.entries) /\ ChainLinked(audit'.entries)
       /\ Len(audit'.entries) >= Len(audit.entries)
       /\ \A n \in 1..Len(audit.entries) :
             audit'.entries[n] = audit.entries[n]]_vars

\* Three entries were appended to those of the set-up, at two timestamps.
AuditChainAppendOnlyWitness ==
    /\ Len(audit.entries) = 6
    /\ audit.entries[6].timestamp > audit.entries[4].timestamp
    /\ audit.entries[6].prev_hash = audit.entries[5].hash
    /\ audit.entries[5].hash # audit.entries[4].hash

\* Nothing was altered and nothing verified yet.
Untouched == lastCall.op \notin {"tamper", "verify_audit_trail"}

\* Some calls that append, then at most one alteration, then the
\* verification of the whole chain.
NextTamper ==
    \/ /\ Untouched
       /\ nextProposalId <= MaxProposals
       /\ ProposeTransfer("s1", "user", 100, <<>>, 0)
       /\ Done
    \/ \E id \in Ids, a \in {"admin", "s2"} :
          Untouched /\ ApproveProposal(a, id) /\ Done
    \/ Untouched /\ AdvanceLedger(110)
    \/ \E id \in 1..MaxAudit, f \in AuditFields : Untouched /\ Tamper(id, f)
    \/ VerifyAuditTrail(1, Len(audit.entries))

SpecTamper == InitWith(BaseConfig, 100, 1000) /\ [][NextTamper]_vars

\* C24: verify_audit_trail(1, N) over the whole chain answers true when no
\* stored entry was altered, and false when one field (id, action, actor,
\* target, timestamp, prev_hash or hash) of one stored entry was altered.
VerifyDetectsAnyAlteredField ==
    [][(/\ lastCall'.op = "verify_audit_trail"
        /\ lastCall.op # "verify_audit_trail")
       => lastCall'.res = IF lastCall.op = "tamper" THEN "false" ELSE "true"]_vars

\* The operation an entry point is audited as.
AuditActionOf(op) ==
    CASE op = "propose" -> "ProposeTransfer"
      [] op = "approve" -> "ApproveProposal"
      [] op = "execute" -> "ExecuteProposal"
      [] op = "reject" -> "RejectProposal"
      [] op = "set_role" -> "SetRole"
      [] op = "add_signer" -> "AddSigner"
      [] op = "remove_signer" -> "RemoveSigner"
      [] op = "update_limits" -> "UpdateLimits"
      [] op = "update_threshold" -> "UpdateThreshold"

PrivilegedOps ==
    {"propose", "approve", "execute", "reject", "set_role", "add_signer",
     "remove_signer", "update_limits", "update_threshold"}

\* C25: each successful propose, approve, reject, execute, set_role,
\* add_signer, remove_signer, update_limits and update_threshold appends
\* exactly one audit entry, of the action kind of the operation and with the
\* caller as its actor.
EveryPrivilegedActionAudited ==
    [][(lastCall'.op \in PrivilegedOps /\ lastCall'.res = "Ok") =>
        /\ Len(audit'.entries) = Len(audit.entries) + 1
        /\ \A n \in 1..Len(audit.entries) :
              audit'.entries[n] = audit.entries[n]
        /\ audit'.entries[Len(audit'.entries)].action
             = AuditActionOf(lastCall'.op)
        /\ audit'.entries[Len(audit'.entries)].actor = lastCall'.caller]_vars

\* ------------------------------------------------- signer-set specification

\* Signer lists handed to initialize: empty, plain, and with a repetition.
InitSignerLists ==
    {<<>>, <<"admin">>, <<"admin", "s1">>, <<"admin", "s1", "s2">>,
     <<"admin", "admin">>, <<"admin", "s1", "s1">>}

\* Any configuration initialize accepts.
InitSignerSet ==
    \E signers \in InitSignerLists, t \in 0..3 :
        LET cfg == [BaseConfig EXCEPT !.signers = signers, !.threshold = t]
        IN InitializeChecks(cfg) = "Ok" /\ InitWith(cfg, 100, 1000)

\* The admin adds and removes signers and moves the threshold; every call
\* is recorded whatever its result.
NextSignerSet ==
    \/ \E a \in {"s1", "s2", "eve"} : AddSigner("admin", a)
    \/ \E a \in {"admin", "s1", "s2", "eve"} : RemoveSigner("admin", a)
    \/ \E t \in 0..3 : UpdateThreshold("admin", t)

SpecSignerSet == InitSignerSet /\ [][NextSignerSet]_vars

\* C31: after initialization the configured signer set is never empty and
\* holds no identity more than once.
SignersNonEmptyAndUnique ==
    /\ Len(config.signers) >= 1
    /\ \A i, j \in 1..Len(config.signers) :
          i # j => config.signers[i] # config.signers[j]

\* ------------------------------------------- changed-rules specification

\* The admin moves the threshold and the quorum between approval and
\* execution.  execute is recorded whatever its result; the other calls
\* when they succeed.
NextRules ==
    \/ /\ nextProposalId <= MaxProposals
       /\ ProposeTransfer("s1", "user", 100, <<>>, 0)
       /\ Done
    \/ \E id \in Ids, a \in Voters : ApproveProposal(a, id) /\ Done
    \/ \E t \in 1..3 : UpdateThreshold("admin", t) /\ Done
    \/ \E q \in {0, 3} : UpdateQuorum("admin", q) /\ Done
    \/ \E id \in Ids : ExecuteProposal("admin", id)

InitRules ==
    \E t \in {1, 2} : InitWith([BaseConfig EXCEPT !.threshold = t], 100, 1000)

SpecRules == InitRules /\ [][NextRules]_vars

\* The votes recorded on p meet the threshold and the quorum of cfg.
MeetsRulesInForce(cfg, p) ==
    /\ Len(p.approvals) >= cfg.threshold
    /\ cfg.quorum = 0 \/ Len(p.approvals) + Len(p.abstentions) >= cfg.quorum

NextAmend ==
    \/ /\ nextProposalId <= MaxProposals
       /\ ProposeTransfer("s1", "user", 100, <<>>, 0)
       /\ Done
    \/ \E id \in Ids, a \in {"admin", "s2"} : ApproveProposal(a, id) /\ Done
    \/ \E id \in Ids : AbstainProposal("s2", id) /\ Done
    \/ \E id \in Ids, a \in {"s1", "s2"}, amount \in {0, 200, 1001} :
          AmendProposal(a, id, "other", amount)

SpecAmend == InitWith(BaseConfig, 100, 1000) /\ [][NextAmend]_vars

\* C33: amend succeeds only for the original proposer on a Pending proposal,
\* and leaves the proposal Pending with no approvals and no abstentions, so
\* no vote cast before the amendment counts for the amended proposal.
AmendResetsVotes ==
    [][(lastCall'.op = "amend" /\ lastCall'.res = "Ok") =>
        /\ lastCall'.id \in DOMAIN proposals
        /\ proposals[lastCall'.id].proposer = lastCall'.caller
        /\ proposals[lastCall'.id].status = "Pending"
        /\ proposals'[lastCall'.id].status = "Pending"
        /\ proposals'[lastCall'.id].approvals = <<>>
        /\ proposals'[lastCall'.id].abstentions = <<>>
        /\ proposals'[lastCall'.id].amount = lastCall'.amount]_vars

\* A proposal that had been approved by a signer was amended.
AmendResetsVotesWitness ==
    /\ lastCall.op = "amend"
    /\ lastCall.res = "Ok"
    /\ proposals[lastCall.id].approvals = <<>>
    /\ \E n \in 1..Len(audit.entries) :
          /\ audit.entries[n].action = "ApproveProposal"
          /\ audit.entries[n].target = lastCall.id

\* ----------------------------------------------- dependency specification

\* The dependency lists tried: none, the first proposal, a proposal that
\* does not exist yet, the proposal being created itself.
DependencyLists == {<<>>, <<1>>, <<MaxProposals + 2>>}

\* Proposals with dependencies under threshold 1.  propose and execute are
\* recorded whatever their result, approve when it succeeds.
NextDeps ==
    \/ /\ nextProposalId <= MaxProposals + 1
       /\ \E deps \in DependencyLists \cup {<<nextProposalId>>} :
             ProposeTransferWithDeps("s1", "user", 100, deps)
    \/ \E id \in 1..(MaxProposals + 1), a \in {"admin", "s2"} :
          ApproveProposal(a, id) /\ Done
    \/ \E id \in 1..(MaxProposals + 1) : ExecuteProposal("admin", id)
    \/ AdvanceLedger(110)

SpecDeps ==
    InitWith([BaseConfig EXCEPT !.threshold = 1], 100, 1000) /\ [][NextDeps]_vars

BucketConfig == [BaseConfig EXCEPT !.daily_limit = 300]

\* The first ledger of the second day.
SecondDay == 17280

\* Proposals are created, amended, cancelled and rejected on two days; the
\* calls are recorded when they succeed.
NextBuckets ==
    \/ \E a \in {100, 300} :
          /\ nextProposalId <= MaxProposals + 1
          /\ ProposeTransfer("s1", "user", a, <<>>, 0)
          /\ Done
    \/ \E id \in 1..(MaxProposals + 1), a \in {100, 500} :
          AmendProposal("s1", id, "user", a) /\ Done
    \/ \E id \in 1..(MaxProposals + 1) : CancelProposal("s1", id) /\ Done
    \/ \E id \in 1..(MaxProposals + 1) : RejectProposal("admin", id) /\ Done
    \/ AdvanceLedger(SecondDay)

SpecBuckets == InitWith(BucketConfig, 100, 1000) /\ [][NextBuckets]_vars

\* The amounts of the proposals with ids up to n that are not Cancelled and
\* were created in bucket b, a bucket being bucketOf of the creation ledger.
RECURSIVE SumCreatedIn(_, _, _, _)
SumCreatedIn(ps, n, bucketOf(_), b) ==
    IF n = 0 THEN 0
    ELSE SumCreatedIn(ps, n - 1, bucketOf, b)
         + (IF n \in DOMAIN ps /\ ps[n].status # "Cancelled"
                /\ bucketOf(ps[n].created_at) = b
            THEN ps[n].amount ELSE 0)

\* C35: for every day and every week, the amounts of the proposals created
\* in it that are not Cancelled add up to at most the daily and the weekly
\* limit.
CreatedInBucketWithinLimit ==
    \A id \in DOMAIN proposals :
        /\ SumCreatedIn(proposals, nextProposalId - 1, get_day_number,
                        get_day_number(proposals[id].created_at))
             <= config.daily_limit
        /\ SumCreatedIn(proposals, nextProposalId - 1, get_week_number,
                        get_week_number(proposals[id].created_at))
             <= config.weekly_limit

\* C36: a successful cancel changes no day or week counter but those of the
\* day and week the cancelled proposal was created in, and those it only
\* lowers.
CancelTouchesCreationBucketsOnly ==
    [][(lastCall'.op = "cancel" /\ lastCall'.res = "Ok") =>
        LET p == proposals[lastCall'.id]
            d == get_day_number(p.created_at)
            w == get_week_number(p.created_at)
        IN /\ OtherBucketsEqual(dailySpent, dailySpent', d)
           /\ OtherBucketsEqual(weeklySpent, weeklySpent', w)
           /\ Get(dailySpent', d, 0) <= Get(dailySpent, d, 0)
           /\ Get(weeklySpent', w, 0) <= Get(weeklySpent, w, 0)]_vars

\* C38: the refunded_amount of the cancellation record a successful cancel
\* stores is the amount by which the counter of the current day and the
\* counter of the current week went down in that cancel.
RefundedAmountIsTheDecrease ==
    [][(lastCall'.op = "cancel" /\ lastCall'.res = "Ok") =>
        LET today == get_day_number(ledger)
            week  == get_week_number(ledger)
            rec   == cancellations'[lastCall'.id]
        IN /\ rec.refunded_amount
                = Get(dailySpent, today, 0) - Get(dailySpent', today, 0)
           /\ rec.refunded_amount
                = Get(weeklySpent, week, 0) - Get(weeklySpent', week, 0)]_vars

\* C37: an execute of an Approved, unexpired proposal that has a retry
\* scheduled and whose backoff is over attempts the transfer again instead of
\* being refused as exhausted: when nothing stands in the transfer's way any
\* more, the proposal is executed.
ScheduledRetryIsAttempted ==
    [][(/\ lastCall'.op = "execute"
        /\ lastCall'.id \in DOMAIN proposals
        /\ lastCall'.id \in DOMAIN retryStates
        /\ retryStates[lastCall'.id].retry_count > 0
        /\ Attemptable(proposals[lastCall'.id])
        /\ ~TransientFailure(proposals[lastCall'.id]))
       => /\ lastCall'.res = "Ok"
          /\ proposals'[lastCall'.id].status = "Executed"]_vars

\* ------------------------------------------- the list of executable proposals

RECURSIVE ExecutableUpTo(_, _, _)
\* Lines 1412-1432: the loop over the ids 1..n, in ascending order.
ExecutableUpTo(st, now, n) ==
    IF n = 0 THEN <<>>
    ELSE LET rest == ExecutableUpTo(st, now, n - 1) IN
         IF n \notin DOMAIN st.proposals THEN rest
         ELSE LET proposal == st.proposals[n] IN
              IF proposal.status # "Approved" THEN rest
              ELSE IF now > proposal.expires_at THEN rest
              ELSE IF proposal.unlock_ledger > 0 /\ now < proposal.unlock_ledger
                   THEN rest
              ELSE IF ~ensure_dependencies_executable(st, proposal) THEN rest
              ELSE Append(rest, n)

get_executable_proposals(st, now) ==
    ExecutableUpTo(st, now, st.nextProposalId - 1)

\* A read: the amount field of the call record carries the length of the
\* list returned.
GetExecutableProposals ==
    Invoke(Call("get_executable_proposals", "anyone", 0,
                Len(get_executable_proposals(Storage, ledger))),
           Ret("Ok", Storage))

NextExecutable ==
    \/ NextRetry
    \/ GetExecutableProposals

SpecExecutable == InitRetry /\ [][NextExecutable]_vars

\* The checks of execute_proposal that come before the attempt: status,
\* expiry, time-lock, dependencies, retries exhausted, backoff.
PassesExecuteChecks(st, now, proposal_id) ==
    LET p == st.proposals[proposal_id] IN
    /\ p.status = "Approved"
    /\ ExpiryAndTimelock(p, now) = "Ok"
    /\ ensure_dependencies_executable(st, p)
    /\ RetryGate(st, now, proposal_id) = "Ok"

\* C39: at every ledger get_executable_proposals returns exactly the
\* proposals that pass the eligibility checks of execute_proposal at that
\* ledger: Approved, not expired, time-lock elapsed, dependencies executed,
\* retry backoff elapsed and retries not exhausted.
ExecutableListMatchesExecuteChecks ==
    LET listed == get_executable_proposals(Storage, ledger) IN
    \A id \in DOMAIN proposals :
        (\E i \in 1..Len(listed) : listed[i] = id)
            <=> PassesExecuteChecks(Storage, ledger, id)

\* ---------------------------------------------- snapshot specification

\* A proposal is voted on while the admin adds eve as a signer, makes her a
\* treasurer and removes s2.  approve and abstain are recorded whatever their
\* result; the other calls when they succeed.
NextSnapshot ==
    \/ /\ nextProposalId <= MaxProposals
       /\ ProposeTransfer("s1", "user", 100, <<>>, 0)
       /\ Done
    \/ \E id \in Ids, a \in {"s1", "eve"} : ApproveProposal(a, id)
    \/ \E id \in Ids, a \in {"s2", "eve"} : AbstainProposal(a, id)
    \/ AddSigner("admin", "eve") /\ Done
    \/ SetRole("admin", "eve", "Treasurer") /\ Done
    \/ RemoveSigner("admin", "s2") /\ Done
    \/ \E id \in DOMAIN proposals : AmendProposal("s1", id, "user", 200) /\ Done

SpecSnapshot == InitWith(BaseConfig, 100, 1000) /\ [][NextSnapshot]_vars

\* Every identity recorded in the votes of proposal p is in its snapshot.
VotersInSnapshot(p) ==
    /\ \A i \in 1..Len(p.approvals) : Contains(p.snapshot_signers, p.approvals[i])
    /\ \A i \in 1..Len(p.abstentions) :
          Contains(p.snapshot_signers, p.abstentions[i])

\* C40: every identity recorded in the approvals or abstentions of a proposal
\* is in that proposal's snapshot_signers, so a signer added after the
\* proposal was created is never recorded as a voter on it, and the snapshot
\* of a proposal never changes once the proposal exists.
VotersComeFromSnapshot ==
    [][/\ \A id \in DOMAIN proposals' : VotersInSnapshot(proposals'[id])
       /\ \A id \in DOMAIN proposals :
             proposals'[id].snapshot_signers = proposals[id].snapshot_signers]_vars

\* eve, made a signer and a treasurer after the proposal was created, is
\* refused as a voter on it while the abstention of s2 stands recorded.
VotersComeFromSnapshotWitness ==
    /\ lastCall.op \in {"approve", "abstain"}
    /\ lastCall.caller = "eve"
    /\ lastCall.res = "VoterNotInSnapshot"
    /\ Contains(config.signers, "eve")
    /\ proposals[lastCall.id].status = "Pending"
    /\ proposals[lastCall.id].abstentions = <<"s2">>

====
